---- MODULE Spec2Model ----
(***************************************************************************)
(* Model of the prime-data crate: the compressed prime block (PrimeByte),  *)
(* the prime store (PrimeData) with its segmented-sieve expansion and      *)
(* range queries, and the two iterators (CoprimeIter, PrimeIter).          *)
(*                                                                         *)
(* Rust values are modelled as follows.                                    *)
(*   PrimeByte           an integer 0..255 (the u8 field `byte`)           *)
(*   PrimeData           [data |-> Seq(0..255), start |-> n, end |-> n]    *)
(*                       data[j+1] is the Rust element self.data[j]        *)
(*   Result / Option     records tagged "Ok", "Err", "Some", "None"        *)
(*   a panic             the record [tag |-> "Panic"]                      *)
(***************************************************************************)
EXTENDS Integers, Sequences, FiniteSets, TLC

(***************************************************************************)
(* Bounds of the model.                                                    *)
(***************************************************************************)
\* largest range bound handed to generate / expand in the small domain
MaxN == 64
\* largest value handed to the point queries (is_prime, check_prime)
MaxX == 66
\* largest argument of the free function is_prime
MaxFree == 130

(***************************************************************************)
(* Result values.                                                          *)
(***************************************************************************)
Ok(v) == [tag |-> "Ok", val |-> v]

OutOfBounds(x) == [tag |-> "Err", kind |-> "OutOfBounds", val |-> x]

NotEnoughData(lo, hi) == [tag |-> "Err", kind |-> "NotEnoughData", lo |-> lo, hi |-> hi]

Panic == [tag |-> "Panic"]

Some(v) == [tag |-> "Some", val |-> v]

None == [tag |-> "None"]

Max(a, b) == IF a >= b THEN a ELSE b

Min(a, b) == IF a <= b THEN a ELSE b

(***************************************************************************)
(* utils/arithmetic.rs                                                     *)
(***************************************************************************)
div_floor(x, d) == x \div d

div_ceil(x, d) == IF (x \div d) * d = x THEN x \div d ELSE (x \div d) + 1

divisible_by(x, d) == div_floor(x, d) = div_ceil(x, d)

\* (self as f64).sqrt() as u64 is the exact floor of the square root for
\* every self below 2^52, which covers all values of the model.
isqrt(x) ==
    LET r == CHOOSE r \in 0..x : r * r <= x /\ (r + 1) * (r + 1) > x
    IN  IF x = r * r THEN [tag |-> "Ok", val |-> r] ELSE [tag |-> "Err", val |-> r]

sqrt_floor(x) == isqrt(x).val

(***************************************************************************)
(* utils/mod.rs                                                            *)
(***************************************************************************)
\* self = self_start..=self_end, range = other_start..=other_end
contains_range(self_start, self_end, other_start, other_end) ==
    IF self_start > other_start
    THEN [tag |-> "Err", lo |-> other_start, hi |-> self_start - 1]
    ELSE IF other_end > self_end
         THEN [tag |-> "Err", lo |-> self_end + 1, hi |-> other_end]
         ELSE [tag |-> "Ok"]

\* RangeInclusive::contains
RangeContains(lo, hi, x) == lo <= x /\ x <= hi

(***************************************************************************)
(* data/mod.rs                                                             *)
(***************************************************************************)
K_VALUES == <<1, 7, 11, 13, 17, 19, 23, 29>>

\* K_VALUES.binary_search(&value) on the sorted, duplicate-free table:
\* Ok(index) (0-based) when found, Err(insertion index) otherwise.
binary_search(value) ==
    IF \E i \in 1..8 : K_VALUES[i] = value
    THEN [tag |-> "Ok", val |-> (CHOOSE i \in 1..8 : K_VALUES[i] = value) - 1]
    ELSE [tag |-> "Err", val |-> Cardinality({i \in 1..8 : K_VALUES[i] < value})]

(***************************************************************************)
(* data/prime_byte.rs                                                      *)
(***************************************************************************)
PrimeByte_new == 255

is_one(bit) == bit % 2 = 1

\* byte >> n on a u8
Shr(byte, n) == byte \div (2 ^ n)

\* as_boolean_array()[i], i = 0 the most significant bit
as_boolean_array(byte) == [i \in 0..7 |-> is_one(Shr(byte, 7 - i))]

\* mutant: the bits are numbered from the least significant one
PrimeByte_set_nonprime_LowBitFirst(byte, k_value) ==
    LET found == binary_search(k_value) IN
    IF found.tag = "Ok"
    THEN LET index == found.val
             bit == Shr(byte, index)
         IN  IF is_one(bit)
             THEN [tag |-> "Ok", val |-> TRUE, byte |-> byte - 2 ^ index]
             ELSE [tag |-> "Ok", val |-> FALSE, byte |-> byte]
    ELSE [tag |-> "Err", byte |-> byte]

PrimeByte_set_nonprime(byte, k_value) ==
    LET found == binary_search(k_value) IN
    IF found.tag = "Ok"
    THEN LET index == found.val
             bit == Shr(byte, 7 - index)
         IN  IF is_one(bit)
             THEN [tag |-> "Ok", val |-> TRUE, byte |-> byte - 2 ^ (7 - index)]
             ELSE [tag |-> "Ok", val |-> FALSE, byte |-> byte]
    ELSE [tag |-> "Err", byte |-> byte]

\* indexes (1-based, ascending) of the set bits whose k-value lies in lo..=hi
SetBitsInRange(byte, lo, hi) ==
    SelectSeq(<<1, 2, 3, 4, 5, 6, 7, 8>>,
              LAMBDA i : as_boolean_array(byte)[i - 1] /\ RangeContains(lo, hi, K_VALUES[i]))

as_primes(byte, offset) ==
    LET idx == SetBitsInRange(byte, 0, 255)
    IN  [j \in 1..Len(idx) |-> 30 * offset + K_VALUES[idx[j]]]

as_primes_in_range(byte, offset, lo, hi) ==
    LET idx == SetBitsInRange(byte, lo, hi)
    IN  [j \in 1..Len(idx) |-> 30 * offset + K_VALUES[idx[j]]]

\* mutant: a value that is no k-value is looked up as its residue modulo 30
PrimeByte_is_prime_Residue(byte, x) ==
    IF \E i \in 1..8 : K_VALUES[i] = x % 30
    THEN as_boolean_array(byte)[(CHOOSE i \in 1..8 : K_VALUES[i] = x % 30) - 1]
    ELSE FALSE

PrimeByte_is_prime(byte, x) ==
    IF \E i \in 1..8 : K_VALUES[i] = x
    THEN as_boolean_array(byte)[(CHOOSE i \in 1..8 : K_VALUES[i] = x) - 1]
    ELSE FALSE

\* mutant: the bit of the k-value 1 is not counted
PrimeByte_count_primes_LowSeven(byte) == Cardinality({i \in 0..6 : is_one(Shr(byte, i))})

\* self.byte.count_ones()
PrimeByte_count_primes(byte) == Cardinality({i \in 0..7 : is_one(Shr(byte, i))})

\* mutant: the range lo..hi taken as half open
PrimeByte_count_primes_in_range_HalfOpen(byte, lo, hi) == Len(SetBitsInRange(byte, lo, hi - 1))

PrimeByte_count_primes_in_range(byte, lo, hi) == Len(SetBitsInRange(byte, lo, hi))

(***************************************************************************)
(* data/iterators/coprime.rs                                               *)
(***************************************************************************)
\* unwrap_any(K_VALUES.binary_search(&value)): the index in both cases
unwrap_any(result) == result.val

\* mutant: a residue that is no k-value starts at index 0
CoprimeIter_new_FoundOnly(start, end) ==
    [offset |-> start \div 30,
     index |-> IF binary_search(start % 30).tag = "Ok" THEN binary_search(start % 30).val ELSE 0,
     stop_after |-> end]

CoprimeIter_new(start, end) ==
    [offset |-> start \div 30,
     index |-> unwrap_any(binary_search(start % 30)),
     stop_after |-> end]

\* next(): the item and the iterator afterwards
CoprimeIter_next(it) ==
    LET current_value == 30 * it.offset + K_VALUES[it.index + 1] IN
    IF current_value > it.stop_after
    THEN [item |-> None, iter |-> it]
    ELSE [item |-> Some(current_value),
          iter |-> IF it.index < 7
                   THEN [it EXCEPT !.index = it.index + 1]
                   ELSE [it EXCEPT !.offset = it.offset + 1, !.index = 0]]

(***************************************************************************)
(* data/iterators/prime.rs                                                 *)
(***************************************************************************)
\* mutant: 2, 3 and 5 are prepended whatever the range start is
MissingFrom_All(range_start) == <<2, 3, 5>>

\* the three primes no bit stores, kept when x >= range_start
MissingFrom(range_start) == SelectSeq(<<2, 3, 5>>, LAMBDA x : x >= range_start)

\* the `loop` of PrimeIter::new: the first block of the slice with a prime,
\* the first block clipped below at range_start
RECURSIVE FirstPrimes(_, _, _, _)
FirstPrimes(data, data_offset, range_start, c0) ==
    IF c0 < Len(data)
    THEN LET byte == data[c0 + 1]
             byte_primes ==
                 IF c0 = 0
                 THEN LET range_offset == data_offset + c0
                          start == range_start - 30 * range_offset
                      IN  as_primes_in_range(byte, range_offset, start, start + 30)
                 ELSE as_primes(byte, data_offset + c0)
         IN  IF Len(byte_primes) > 0
             THEN [primes |-> Some(MissingFrom(range_start) \o byte_primes), c0 |-> c0]
             ELSE FirstPrimes(data, data_offset, range_start, c0 + 1)
    ELSE [primes |-> None, c0 |-> c0]

\* PrimeIter::new(prime_data, range_start..=stop_at)
PrimeIter_new(prime_data, range_start, stop_at) ==
    LET cr == contains_range(prime_data.start, prime_data.end, range_start, stop_at) IN
    IF cr.tag = "Err" THEN NotEnoughData(cr.lo, cr.hi)
    ELSE
    LET original_offset == prime_data.start \div 30
        data_start == div_floor(range_start, 30) - original_offset
        data_end == div_ceil(stop_at, 30) - original_offset
    IN  \* usize subtraction below zero, or a slice that is reversed or too long
        IF data_start < 0 \/ data_end < 0 \/ data_start > data_end
           \/ data_end > Len(prime_data.data)
        THEN Panic
        ELSE LET data == SubSeq(prime_data.data, data_start + 1, data_end)
                 data_offset == data_start + original_offset
                 first == FirstPrimes(data, data_offset, range_start, 0)
             IN  Ok([data |-> data, primes |-> first.primes, c0 |-> first.c0, c1 |-> 0,
                     data_offset |-> data_offset, stop_at |-> stop_at])

\* the `loop` of PrimeIter::next: the next block of the slice with a prime
RECURSIVE NextPrimes(_, _, _)
NextPrimes(data, data_offset, c0) ==
    IF c0 < Len(data)
    THEN LET byte_primes == as_primes(data[c0 + 1], data_offset + c0)
         IN  IF Len(byte_primes) > 0
             THEN [primes |-> Some(byte_primes), c0 |-> c0]
             ELSE NextPrimes(data, data_offset, c0 + 1)
    ELSE [primes |-> None, c0 |-> c0]

\* mutant: a prime beyond stop_at moves stop_at up to it
PrimeIter_next_RaisesStop(it) ==
    IF it.primes.tag = "Some"
    THEN LET vector == it.primes.val
             current_prime == vector[it.c1 + 1]
         IN  IF current_prime > it.stop_at
             THEN [item |-> None, iter |-> [it EXCEPT !.stop_at = current_prime]]
             ELSE IF it.c1 + 1 < Len(vector)
                  THEN [item |-> Some(current_prime), iter |-> [it EXCEPT !.c1 = it.c1 + 1]]
                  ELSE LET nx == NextPrimes(it.data, it.data_offset, it.c0 + 1)
                       IN  [item |-> Some(current_prime),
                            iter |-> [it EXCEPT !.c1 = 0, !.c0 = nx.c0, !.primes = nx.primes]]
    ELSE [item |-> None, iter |-> it]

PrimeIter_next(it) ==
    IF it.primes.tag = "Some"
    THEN LET vector == it.primes.val
             current_prime == vector[it.c1 + 1]
         IN  IF current_prime > it.stop_at
             THEN [item |-> None, iter |-> it]
             ELSE IF it.c1 + 1 < Len(vector)
                  THEN [item |-> Some(current_prime), iter |-> [it EXCEPT !.c1 = it.c1 + 1]]
                  ELSE LET nx == NextPrimes(it.data, it.data_offset, it.c0 + 1)
                       IN  [item |-> Some(current_prime),
                            iter |-> [it EXCEPT !.c1 = 0, !.c0 = nx.c0, !.primes = nx.primes]]
    ELSE [item |-> None, iter |-> it]

\* iterator.collect::<Vec<u64>>()
RECURSIVE PrimeIter_collect(_)
PrimeIter_collect(it) ==
    LET nx == PrimeIter_next(it) IN
    IF nx.item.tag = "None" THEN <<>> ELSE <<nx.item.val>> \o PrimeIter_collect(nx.iter)

(***************************************************************************)
(* data/prime_data.rs: construction                                        *)
(***************************************************************************)
PrimeData_new == [data |-> <<127>>, start |-> 0, end |-> 30]

offset(self) == self.start \div 30

is_empty(self) == self.start > self.end

\* mutant: the last block is floor(end / 30), one block too many for an end
\* that is a multiple of 30
create_empty_FloorEnd(start, end) ==
    LET data_start == div_floor(start, 30)
        data_end == div_floor(end, 30) + 1
    IN  IF data_start >= data_end
        THEN [data |-> <<>>, start |-> start, end |-> end]
        ELSE LET data_length == data_end - data_start
                 ones == [j \in 1..data_length |-> PrimeByte_new]
             IN  [data |-> IF data_start = 0
                           THEN [ones EXCEPT ![1] = PrimeByte_set_nonprime(ones[1], 1).byte]
                           ELSE ones,
                  start |-> start, end |-> end]

\* mutant: the bit of 1 is left set
create_empty_KeepsOne(start, end) ==
    LET data_start == div_floor(start, 30)
        data_end == div_ceil(end, 30)
    IN  IF data_start >= data_end
        THEN [data |-> <<>>, start |-> start, end |-> end]
        ELSE [data |-> [j \in 1..(data_end - data_start) |-> PrimeByte_new],
              start |-> start, end |-> end]

\* all bits one, the bit of 1 cleared when the first block is block 0
create_empty(start, end) ==
    LET data_start == div_floor(start, 30)
        data_end == div_ceil(end, 30)
    IN  IF data_start >= data_end
        THEN [data |-> <<>>, start |-> start, end |-> end]
        ELSE LET data_length == data_end - data_start
                 ones == [j \in 1..data_length |-> PrimeByte_new]
             IN  [data |-> IF data_start = 0
                           THEN [ones EXCEPT ![1] = PrimeByte_set_nonprime(ones[1], 1).byte]
                           ELSE ones,
                  start |-> start, end |-> end]

\* mutant: the block index is taken without subtracting the offset
PrimeData_set_nonprime_NoOffset(self, nonprime) ==
    IF RangeContains(self.start, self.end, nonprime)
    THEN LET data_index == nonprime \div 30
             k_value == nonprime % 30
         IN  IF data_index >= Len(self.data)
             THEN Panic
             ELSE LET r == PrimeByte_set_nonprime(self.data[data_index + 1], k_value) IN
                  IF r.tag = "Ok"
                  THEN [tag |-> "Ok", val |-> r.val,
                        store |-> [self EXCEPT !.data[data_index + 1] = r.byte]]
                  ELSE OutOfBounds(nonprime)
    ELSE OutOfBounds(nonprime)

\* the private PrimeData::set_nonprime: Ok(changed) with the store afterwards
PrimeData_set_nonprime(self, nonprime) ==
    IF RangeContains(self.start, self.end, nonprime)
    THEN LET data_index == (nonprime \div 30) - offset(self)
             k_value == nonprime % 30
         IN  IF data_index >= Len(self.data)
             THEN Panic
             ELSE LET r == PrimeByte_set_nonprime(self.data[data_index + 1], k_value) IN
                  IF r.tag = "Ok"
                  THEN [tag |-> "Ok", val |-> r.val,
                        store |-> [self EXCEPT !.data[data_index + 1] = r.byte]]
                  ELSE OutOfBounds(nonprime)
    ELSE OutOfBounds(nonprime)

\* the inner `for multiplier in CoprimeIter` of try_expand; the unwrap of a
\* failed strike is a panic
RECURSIVE StrikeMultiples(_, _, _)
StrikeMultiples(citer, prime, expanded_data) ==
    LET nx == CoprimeIter_next(citer) IN
    IF nx.item.tag = "None"
    THEN Ok(expanded_data)
    ELSE LET composite_number == prime * nx.item.val
             r == PrimeData_set_nonprime(expanded_data, composite_number)
         IN  IF r.tag = "Ok" THEN StrikeMultiples(nx.iter, prime, r.store) ELSE Panic

\* mutant: the last multiplier is ceil(end / prime)
MultiplierIter_CeilUpper(prime, start, end) ==
    CoprimeIter_new(Max(div_ceil(start, prime), 7), div_ceil(end, prime))

\* mutant: the multipliers start above 7
MultiplierIter_Above7(prime, start, end) ==
    CoprimeIter_new(Max(div_ceil(start, prime), 8), div_floor(end, prime))

\* mutant: the last multiplier is left out
MultiplierIter_ShortUpper(prime, start, end) ==
    CoprimeIter_new(Max(div_ceil(start, prime), 7), div_floor(end, prime) - 1)

\* the multipliers of one prime in try_expand
MultiplierIter(prime, start, end) ==
    CoprimeIter_new(Max(div_ceil(start, prime), 7), div_floor(end, prime))

\* the outer `for prime in self.iter(7..=end_sqrt)` of try_expand
RECURSIVE SievePrimes(_, _, _, _)
SievePrimes(piter, expanded_data, start, end) ==
    LET nx == PrimeIter_next(piter) IN
    IF nx.item.tag = "None"
    THEN Ok(expanded_data)
    ELSE LET struck == StrikeMultiples(MultiplierIter(nx.item.val, start, end),
                                       nx.item.val, expanded_data)
         IN  IF struck.tag = "Ok" THEN SievePrimes(nx.iter, struck.val, start, end) ELSE Panic

\* mutant: the blocks the store already has are copied into the new store,
\* padding bits included
try_expand_CopiesBlocks(self, start, end) ==
    LET end_sqrt == sqrt_floor(end)
        cr == contains_range(self.start, self.end, 7, end_sqrt)
    IN  IF cr.tag = "Err" THEN NotEnoughData(cr.lo, cr.hi)
        ELSE LET expanded_data == create_empty(start, end) IN
             IF is_empty(expanded_data) THEN Ok(expanded_data)
             ELSE LET it == PrimeIter_new(self, 7, end_sqrt) IN
                  IF it.tag # "Ok" THEN Panic
                  ELSE LET sieved == SievePrimes(it.val, expanded_data, start, end) IN
                       IF sieved.tag # "Ok" THEN Panic
                       ELSE Ok([sieved.val EXCEPT !.data =
                                [j \in 1..Len(sieved.val.data) |->
                                    LET own == j + (start \div 30) - (self.start \div 30) IN
                                    IF own \in 1..Len(self.data)
                                    THEN self.data[own]
                                    ELSE sieved.val.data[j]]])

try_expand(self, start, end) ==
    LET end_sqrt == sqrt_floor(end)
        cr == contains_range(self.start, self.end, 7, end_sqrt)
    IN  IF cr.tag = "Err" THEN NotEnoughData(cr.lo, cr.hi)
        ELSE LET expanded_data == create_empty(start, end) IN
             IF is_empty(expanded_data) THEN Ok(expanded_data)
             ELSE LET it == PrimeIter_new(self, 7, end_sqrt) IN
                  \* self.iter(..) unwraps
                  IF it.tag # "Ok" THEN Panic
                  ELSE SievePrimes(it.val, expanded_data, start, end)

\* expand = try_expand(..).unwrap()
expand(self, start, end) ==
    LET r == try_expand(self, start, end) IN IF r.tag = "Ok" THEN r ELSE Panic

\* the bound below which generate sieves from the starter data
GenerateBase == 900

RECURSIVE generate(_, _)
generate(start, end) ==
    IF end <= GenerateBase
    THEN expand(PrimeData_new, start, end)
    ELSE LET sqrt_end == sqrt_floor(end)
             inner == generate(0, sqrt_end)
         IN  IF inner.tag = "Ok" THEN expand(inner.val, start, end) ELSE Panic

(***************************************************************************)
(* data/prime_data.rs: queries                                             *)
(***************************************************************************)
\* Some(index) (0-based), None, or the "Unexpected error" panic
data_index_that_contains(self, x) ==
    IF is_empty(self) THEN None
    ELSE IF RangeContains(self.start, self.end, x)
         THEN LET result == (x \div 30) - offset(self) IN
              IF result >= Len(self.data)
              THEN IF divisible_by(x, 30)
                   THEN \* usize subtraction below zero
                        IF result - 1 < 0 THEN Panic ELSE Some(result - 1)
                   ELSE Panic
              ELSE Some(result)
         ELSE None

\* mutant: x is accepted whenever a block of the array covers it
try_is_prime_AnyBlock(self, x) ==
    LET index == (x \div 30) - offset(self) IN
    IF ~is_empty(self) /\ (RangeContains(self.start, self.end, x)
                           \/ (0 <= index /\ index < Len(self.data)))
    THEN IF x = 2 \/ x = 3 \/ x = 5 THEN Ok(TRUE)
         ELSE IF divisible_by(x, 30) THEN Ok(FALSE)
         ELSE IF index < 0 \/ index >= Len(self.data) THEN Panic
         ELSE Ok(PrimeByte_is_prime(self.data[index + 1], x % 30))
    ELSE OutOfBounds(x)

try_is_prime(self, x) ==
    IF RangeContains(self.start, self.end, x) /\ ~is_empty(self)
    THEN IF x = 2 \/ x = 3 \/ x = 5 THEN Ok(TRUE)
         ELSE IF divisible_by(x, 30) THEN Ok(FALSE)
         ELSE LET index == data_index_that_contains(self, x) IN
              IF index.tag # "Some" THEN Panic
              ELSE Ok(PrimeByte_is_prime(self.data[index.val + 1], x % 30))
    ELSE OutOfBounds(x)

\* the `for prime in self.iter(7..=sqrt)` of try_check_prime
RECURSIVE DividesAny(_, _)
DividesAny(piter, x) ==
    LET nx == PrimeIter_next(piter) IN
    IF nx.item.tag = "None" THEN FALSE
    ELSE IF divisible_by(x, nx.item.val) THEN TRUE ELSE DividesAny(nx.iter, x)

try_check_prime(self, x) ==
    IF RangeContains(self.start, self.end, x)
    THEN try_is_prime(self, x)
    ELSE LET sqrt == sqrt_floor(x)
             cr == contains_range(self.start, self.end, 7, sqrt)
         IN  IF cr.tag = "Err" THEN NotEnoughData(cr.lo, cr.hi)
             ELSE IF x = 2 \/ x = 3 \/ x = 5 THEN Ok(TRUE)
             ELSE IF divisible_by(x, 30) THEN Ok(FALSE)
             ELSE LET it == PrimeIter_new(self, 7, sqrt) IN
                  IF it.tag # "Ok" THEN Panic
                  ELSE IF DividesAny(it.val, x) THEN Ok(FALSE) ELSE Ok(TRUE)

\* slice.iter().fold(0, |acc, cur| acc + cur.count_primes())
RECURSIVE FoldCount(_)
FoldCount(bytes) ==
    IF Len(bytes) = 0 THEN 0 ELSE PrimeByte_count_primes(Head(bytes)) + FoldCount(Tail(bytes))

\* data[lo..hi] is a valid slice expression
SliceOk(data, lo, hi) == 0 <= lo /\ lo <= hi /\ hi <= Len(data)

\* data[lo..hi], 0-based and half open
Slice(data, lo, hi) == SubSeq(data, lo + 1, hi)

\* the Ordering::Less arm of try_count_primes_in_range
CountLess(self, start, end, missing_primes) ==
    LET si == data_index_that_contains(self, start)
        ei == data_index_that_contains(self, end)
    IN
    IF si.tag # "Some" \/ ei.tag # "Some" THEN Panic
    ELSE
    LET start_index == si.val
        end_index == ei.val
        start_mod == start % 30
        end_mod == end % 30
        data == self.data
    IN
    IF divisible_by(start, 30) /\ divisible_by(end, 30)
    THEN LET end_index2 == start_index + ((end - start) \div 30) IN
         IF ~SliceOk(data, start_index, end_index2) THEN Panic
         ELSE Ok(missing_primes + FoldCount(Slice(data, start_index, end_index2)))
    ELSE IF divisible_by(start, 30)
    THEN IF ~SliceOk(data, start_index, end_index) \/ end_index >= Len(data) THEN Panic
         ELSE Ok(missing_primes + FoldCount(Slice(data, start_index, end_index))
                 + PrimeByte_count_primes_in_range(data[end_index + 1], 0, end_mod))
    ELSE IF divisible_by(end, 30)
    THEN IF start_index >= Len(data) THEN Panic
         ELSE
         LET first_primes == PrimeByte_count_primes_in_range(data[start_index + 1], start_mod, 30) IN
         IF start_index = end_index \/ start + 30 > end
         THEN Ok(missing_primes + first_primes)
         ELSE LET end_index2 == IF end = self.end THEN end_index ELSE end_index - 1 IN
              \* data[(start_index+1)..=end_index2]
              IF end_index2 < 0 \/ ~SliceOk(data, start_index + 1, end_index2 + 1) THEN Panic
              ELSE Ok(missing_primes + first_primes
                      + FoldCount(Slice(data, start_index + 1, end_index2 + 1)))
    ELSE IF start_index = end_index
    THEN IF start_index >= Len(data) THEN Panic
         ELSE Ok(missing_primes
                 + PrimeByte_count_primes_in_range(data[start_index + 1], start_mod, end_mod))
    ELSE IF start_index >= Len(data) \/ end_index >= Len(data)
            \/ ~SliceOk(data, start_index + 1, end_index)
         THEN Panic
         ELSE Ok(missing_primes
                 + PrimeByte_count_primes_in_range(data[start_index + 1], start_mod, 30)
                 + FoldCount(Slice(data, start_index + 1, end_index))
                 + PrimeByte_count_primes_in_range(data[end_index + 1], 0, end_mod))

try_count_primes_in_range(self, start, end) ==
    LET cr == contains_range(self.start, self.end, start, end) IN
    IF cr.tag = "Err" THEN NotEnoughData(cr.lo, cr.hi)
    ELSE IF is_empty(self) THEN Ok(0)
    ELSE LET missing_primes == Cardinality({x \in {2, 3, 5} : RangeContains(start, end, x)}) IN
         IF start > end THEN Ok(0)
         ELSE IF start = end
              THEN LET p == try_is_prime(self, start) IN
                   \* self.is_prime(start) unwraps
                   IF p.tag # "Ok" THEN Panic ELSE IF p.val THEN Ok(1) ELSE Ok(0)
              ELSE CountLess(self, start, end, missing_primes)

\* count_primes_in_range = try_count_primes_in_range(..).unwrap()
count_primes_in_range(self, start, end) ==
    LET r == try_count_primes_in_range(self, start, end) IN IF r.tag = "Ok" THEN r ELSE Panic

count_primes(self) == count_primes_in_range(self, self.start, self.end)

\* check_prime = try_check_prime(..).unwrap()
check_prime(self, x) ==
    LET r == try_check_prime(self, x) IN IF r.tag = "Ok" THEN r ELSE Panic

\* the free function is_prime of data/mod.rs
public_is_prime(x) ==
    LET g == generate(0, sqrt_floor(x)) IN
    IF g.tag # "Ok" THEN Panic ELSE check_prime(g.val, x)

\* the free function count_primes of data/mod.rs
public_count_primes(x) ==
    LET g == generate(0, x) IN
    IF g.tag # "Ok" THEN Panic ELSE count_primes(g.val)

(***************************************************************************)
(* Reference arithmetic the claims are stated against.                      *)
(***************************************************************************)
\* x >= 2 with no divisor in [2, isqrt(x)]
IsPrimeNumber(x) == x >= 2 /\ \A d \in 2..x : (d * d <= x) => x % d # 0

\* number of primes p with lo <= p <= hi
PrimesBetween(lo, hi) == Cardinality({p \in lo..hi : IsPrimeNumber(p)})

Coprime30(x) == \E i \in 1..8 : K_VALUES[i] = x % 30

(***************************************************************************)
(* State.                                                                  *)
(*   pc        position of the caller: "new" (only the starter data        *)
(*             exists), "ready" (a store was built), "queried" (a query    *)
(*             returned), and inside try_expand "primes" (at the head of   *)
(*             the outer loop), "multiples" (at the head of the inner      *)
(*             loop), "expanded" (try_expand returned)                     *)
(*             and while a CoprimeIter is driven "coprime" (it may yield   *)
(*             more), "coprime_done" (next returned None)                   *)
(*   store     the PrimeData the caller holds (self of the queries)        *)
(*   op, arg   the last operation called and its arguments                 *)
(*   res       what it returned                                            *)
(*   expanded  expanded_data of the running try_expand                     *)
(*   piter     the PrimeIter of its outer loop                             *)
(*   citer     the CoprimeIter of its inner loop                           *)
(*   prime     the loop variable `prime`                                   *)
(***************************************************************************)
VARIABLES pc, store, op, arg, res, expanded, piter, citer, prime

vars == <<pc, store, op, arg, res, expanded, piter, citer, prime>>

sieve == <<expanded, piter, citer, prime>>

\* PrimeData::new() is the only store that exists before any call
Init ==
    /\ pc = "new"
    /\ store = PrimeData_new
    /\ op = "new"
    /\ arg = <<>>
    /\ res = None
    /\ expanded = None
    /\ piter = None
    /\ citer = None
    /\ prime = 0

\* ranges beyond GenerateBase, where generate recurses
BigStarts == {0, 31, 870}

BigEnds == {899, 900, 901, 961}

\* the query points tried on a store that reaches beyond the small domain
BigLo == 838

BigHi == 963

\* let data = PrimeData::generate(a..=b)
Generate(a, b) ==
    /\ pc = "new"
    /\ LET r == generate(a, b) IN
       /\ store' = IF r.tag = "Ok" THEN r.val ELSE store
       /\ res' = IF r.tag = "Ok" THEN Ok("store") ELSE r
    /\ pc' = "ready"
    /\ op' = "generate"
    /\ arg' = <<a, b>>
    /\ UNCHANGED sieve

\* a query returns; the store is not changed by it
Query(name, args, result) ==
    /\ pc \in {"new", "ready"}
    /\ pc' = "queried"
    /\ op' = name
    /\ arg' = args
    /\ res' = result
    /\ UNCHANGED <<store, sieve>>

\* data.try_is_prime(x)
TryIsPrime(x) == Query("try_is_prime", <<x>>, try_is_prime(store, x))

\* data.try_check_prime(x)
TryCheckPrime(x) == Query("try_check_prime", <<x>>, try_check_prime(store, x))

\* prime_data::is_prime(x), which builds its own store
PublicIsPrime(x) ==
    /\ pc = "new"
    /\ Query("is_prime", <<x>>, public_is_prime(x))

\* the points queried on a store
Points(s) == (0..MaxX) \cup (IF s.end > MaxN THEN BigLo..BigHi ELSE {})

\* the guards are tested before the inputs are drawn
AtNew == pc = "new"

HoldsStore == pc \in {"new", "ready"}

GenerateSmall == AtNew /\ \E a \in 0..MaxN, b \in 0..MaxN : Generate(a, b)

GenerateBig == AtNew /\ \E a \in BigStarts, b \in BigEnds : Generate(a, b)

IsPrimeStep == HoldsStore /\ \E x \in Points(store) : TryIsPrime(x)

CheckPrimeStep == HoldsStore /\ \E x \in Points(store) : TryCheckPrime(x)

PublicIsPrimeStep == AtNew /\ \E x \in 0..MaxFree : PublicIsPrime(x)

Next ==
    \/ GenerateSmall
    \/ GenerateBig
    \/ IsPrimeStep
    \/ CheckPrimeStep
    \/ PublicIsPrimeStep

Spec == Init /\ [][Next]_vars

(***************************************************************************)
(* Claims on the point queries, checked under Spec.                        *)
(***************************************************************************)
\* every store Spec reaches was returned by generate(a..=b) or PrimeData::new
InRange(s, x) == s.start <= x /\ x <= s.end

\* C1: on a store returned by generate(a..=b), a <= b, try_is_prime(x) of an
\* x in [a, b] is Ok(true) exactly when x is a prime number.
C1_IsPrimeExact ==
    (op = "try_is_prime" /\ InRange(store, arg[1]))
        => (res.tag = "Ok" /\ res.val = IsPrimeNumber(arg[1]))

\* C1 witness: 961 = 31 * 31 is reported composite by generate(0..=961), the
\* store built through the recursive branch of generate.
C1_Witness ==
    op = "try_is_prime" /\ arg = <<961>> /\ store.start = 0 /\ store.end = 961
    /\ res = Ok(FALSE)

\* C2: the free function is_prime(x) returns true exactly when x >= 2 and no
\* integer in [2, isqrt(x)] divides x.
C2_PublicIsPrimeTrialDivision ==
    (op = "is_prime") => (res.tag = "Ok" /\ res.val = IsPrimeNumber(arg[1]))

\* C3: whenever try_check_prime(x) returns Ok(b), b is true exactly when x is
\* prime, and for x inside the range the result is that of try_is_prime(x).
C3_CheckPrimeExact ==
    (op = "try_check_prime" /\ res.tag = "Ok")
        => /\ res.val = IsPrimeNumber(arg[1])
           /\ InRange(store, arg[1]) => res = try_is_prime(store, arg[1])

\* C8: for x outside [s, e], and for every x on an empty store, try_is_prime(x)
\* is the OutOfBounds(x) error.
C8_OutOfBounds ==
    (op = "try_is_prime" /\ (~InRange(store, arg[1]) \/ store.start > store.end))
        => res = OutOfBounds(arg[1])

\* C8 witness: 41 has a bit in the last block of generate(7..=40) and is
\* refused.
C8_Witness ==
    op = "try_is_prime" /\ arg = <<41>> /\ store.start = 7 /\ store.end = 40
    /\ Len(store.data) = 2 /\ res = OutOfBounds(41)

(***************************************************************************)
(* Counting.  SpecCount counts whole stores; SpecRange counts sub-ranges   *)
(* of the stores generate(0..=M).                                          *)
(***************************************************************************)
\* largest M of the stores generate(0..=M) whose sub-ranges are counted
MaxM == 92
\* largest bound of a counted sub-range
MaxQ == 94
\* largest argument of the free function count_primes
MaxPi == 130

\* data.count_primes()
CountPrimes == Query("count_primes", <<>>, count_primes(store))

\* data.try_count_primes_in_range(n..=m)
TryCountPrimesInRange(n, m) ==
    Query("try_count_primes_in_range", <<n, m>>, try_count_primes_in_range(store, n, m))

\* prime_data::count_primes(x), which builds its own store
PublicCountPrimes(x) ==
    /\ pc = "new"
    /\ Query("count_primes_free", <<x>>, public_count_primes(x))

CountPrimesStep == HoldsStore /\ CountPrimes

PublicCountPrimesStep == AtNew /\ \E x \in 0..MaxPi : PublicCountPrimes(x)

NextCount ==
    \/ GenerateSmall
    \/ GenerateBig
    \/ CountPrimesStep
    \/ PublicCountPrimesStep

SpecCount == Init /\ [][NextCount]_vars

GenerateFromZero == AtNew /\ \E M \in 0..MaxM : Generate(0, M)

CountInRangeStep == HoldsStore /\ \E n \in 0..MaxQ, m \in 0..MaxQ : TryCountPrimesInRange(n, m)

NextRange ==
    \/ GenerateFromZero
    \/ CountInRangeStep

SpecRange == Init /\ [][NextRange]_vars

\* C4: generate(n..=m).count_primes(), n <= m, is the number of primes p with
\* n <= p <= m, and the free function count_primes(x) is pi(x).
C4_CountPrimesExact ==
    /\ (op = "count_primes" /\ store.start <= store.end)
           => res = Ok(PrimesBetween(store.start, store.end))
    /\ (op = "count_primes_free") => res = Ok(PrimesBetween(0, arg[1]))

\* C4 witness: generate(2..=60) counts 17 primes, 2, 3 and 5 among them, with
\* the range end on a block boundary.
C4_Witness ==
    op = "count_primes" /\ store.start = 2 /\ store.end = 60 /\ res = Ok(17)

\* the branch of try_count_primes_in_range a sub-range n < m takes
Branch(n, m) ==
    IF n % 30 = 0 /\ m % 30 = 0 THEN "both"
    ELSE IF n % 30 = 0 THEN "start"
    ELSE IF m % 30 = 0 THEN "end"
    ELSE "neither"

\* C5: on generate(0..=M), count_primes_in_range(n..=m) of a sub-range
\* n < m inside [0, M] is the number of primes in [n, m], whichever branch
\* the multiples of 30 among n and m select.
C5_CountInRangeExact ==
    (op = "try_count_primes_in_range" /\ store.start = 0
     /\ arg[1] < arg[2] /\ arg[2] <= store.end)
        => res = Ok(PrimesBetween(arg[1], arg[2]))

\* C5 witness: n = 1, m = 60 on generate(0..=64) takes the branch "only m a
\* multiple of 30" with m below the range end and a whole block in between.
C5_Witness ==
    op = "try_count_primes_in_range" /\ store.start = 0 /\ store.end = 64
    /\ arg = <<1, 60>> /\ Branch(arg[1], arg[2]) = "end" /\ res = Ok(17)

\* C6: generate(0..=M).count_primes_in_range(0..=n), n <= M, equals
\* generate(0..=n).count_primes().
C6_GenerationOrderIndependence ==
    (op = "try_count_primes_in_range" /\ store.start = 0
     /\ arg[1] = 0 /\ arg[2] <= store.end)
        => (generate(0, arg[2]).tag = "Ok"
            /\ res = count_primes(generate(0, arg[2]).val))

\* C6 witness: the count of 0..=49 taken from the larger store generate(0..=64),
\* whose bit of 49 is cleared, against generate(0..=49).
C6_Witness ==
    op = "try_count_primes_in_range" /\ store.start = 0 /\ store.end = 64
    /\ arg = <<0, 49>> /\ res = Ok(15)

\* C7: count_primes_in_range(a..=b) with a > b returns 0 on every store,
\* whatever a and b are.
C7_ReversedRangeIsZero ==
    (op = "try_count_primes_in_range" /\ arg[1] > arg[2]) => res = Ok(0)

(***************************************************************************)
(* try_expand, one loop iteration per step.  The witness store (self) is   *)
(* one of WitnessRanges; the target range is drawn from 0..MaxB.           *)
(***************************************************************************)
\* largest bound of an expansion target
MaxB == 125

\* ranges of the witness stores: the starter range, the least store that
\* can witness 0..=MaxB, stores that end or start short of it, an empty one
WitnessRanges == {<<0, 30>>, <<7, 11>>, <<3, 10>>, <<0, 6>>, <<8, 12>>, <<7, 6>>}

\* self.try_expand(a..=b) up to the head of the outer loop
ExpandBegin(a, b) ==
    /\ op' = "try_expand"
    /\ arg' = <<a, b>>
    /\ LET end_sqrt == sqrt_floor(b)
           cr == contains_range(store.start, store.end, 7, end_sqrt)
           expanded_data == create_empty(a, b)
           it == PrimeIter_new(store, 7, end_sqrt)
       IN  IF cr.tag = "Err"
           THEN /\ res' = NotEnoughData(cr.lo, cr.hi)
                /\ pc' = "expanded"
                /\ UNCHANGED <<expanded, piter>>
           ELSE IF is_empty(expanded_data)
           THEN /\ res' = Ok("store")
                /\ pc' = "expanded"
                /\ expanded' = expanded_data
                /\ UNCHANGED piter
           ELSE IF it.tag # "Ok"
           THEN /\ res' = Panic
                /\ pc' = "expanded"
                /\ expanded' = expanded_data
                /\ UNCHANGED piter
           ELSE /\ res' = None
                /\ pc' = "primes"
                /\ expanded' = expanded_data
                /\ piter' = it.val
    /\ UNCHANGED <<store, citer, prime>>

\* the head of `for prime in self.iter(7..=end_sqrt)`
ExpandNextPrime ==
    /\ pc = "primes"
    /\ LET nx == PrimeIter_next(piter) IN
       IF nx.item.tag = "None"
       THEN /\ pc' = "expanded"
            /\ res' = Ok("store")
            /\ UNCHANGED <<piter, citer, prime>>
       ELSE /\ pc' = "multiples"
            /\ prime' = nx.item.val
            /\ piter' = nx.iter
            /\ citer' = MultiplierIter(nx.item.val, arg[1], arg[2])
            /\ UNCHANGED res
    /\ UNCHANGED <<store, op, arg, expanded>>

\* the head and body of `for multiplier in CoprimeIter::new(..)`
ExpandStrike ==
    /\ pc = "multiples"
    /\ LET nx == CoprimeIter_next(citer) IN
       IF nx.item.tag = "None"
       THEN /\ pc' = "primes"
            /\ UNCHANGED <<expanded, citer, res>>
       ELSE LET composite_number == prime * nx.item.val
                r == PrimeData_set_nonprime(expanded, composite_number)
            IN  IF r.tag = "Ok"
                THEN /\ expanded' = r.store
                     /\ citer' = nx.iter
                     /\ UNCHANGED <<pc, res>>
                ELSE /\ res' = Panic
                     /\ pc' = "expanded"
                     /\ UNCHANGED <<expanded, citer>>
    /\ UNCHANGED <<store, op, arg, piter, prime>>

GenerateWitness == AtNew /\ \E r \in WitnessRanges : Generate(r[1], r[2])

ExpandBeginStep == HoldsStore /\ \E a \in 0..MaxB, b \in 0..MaxB : ExpandBegin(a, b)

NextExpand ==
    \/ GenerateWitness
    \/ ExpandBeginStep
    \/ ExpandNextPrime
    \/ ExpandStrike

SpecExpand == Init /\ [][NextExpand]_vars

\* the steps return what the operator try_expand computes
StepsAgreeWithTryExpand ==
    (pc = "expanded") =>
        LET r == try_expand(store, arg[1], arg[2]) IN
        IF r.tag = "Ok" THEN res = Ok("store") /\ expanded = r.val ELSE res = r

(***************************************************************************)
(* Claims on try_expand, checked under SpecExpand.                          *)
(***************************************************************************)
\* the bit of a coprime-30 x of the range in the block array of s
BitOf(s, x) == PrimeByte_is_prime(s.data[(x \div 30) - offset(s) + 1], x % 30)

\* s answers primality correctly on [7, isqrt(b)]
WitnessCorrect(s, b) ==
    \A x \in 7..sqrt_floor(b) : try_is_prime(s, x) = Ok(IsPrimeNumber(x))

\* x has a proper divisor in [7, q], hence a smallest prime factor <= q
HasDivisorUpTo(x, q) == \E d \in 7..q : d < x /\ x % d = 0

\* try_expand(a..=b) is running or has returned, a <= b, on a witness whose
\* range starts at or before 7 and ends at or after isqrt(b)
Expanding ==
    /\ op = "try_expand"
    /\ arg[1] <= arg[2]
    /\ store.start <= 7 /\ sqrt_floor(arg[2]) <= store.end
    /\ WitnessCorrect(store, arg[2])

\* C9: with a correct witness covering [7, isqrt(b)], at every step of the
\* sieve of a..=b no prime of the range has its bit cleared, the bit of 1 is
\* cleared when block 0 is part of the new store, after the pass of a prime
\* every coprime-30 composite of the range with a prime factor up to it is
\* cleared, and the returned store has the bit of every coprime-30 x of the
\* range set exactly when x is prime.
C9_SieveCorrect ==
    Expanding =>
        /\ pc = "expanded" => res = Ok("store")
        /\ Len(expanded.data) = div_ceil(arg[2], 30) - div_floor(arg[1], 30)
        /\ (offset(expanded) = 0 /\ Len(expanded.data) >= 1)
               => ~PrimeByte_is_prime(expanded.data[1], 1)
        /\ \A x \in arg[1]..arg[2] :
               Coprime30(x) =>
                   /\ IsPrimeNumber(x) => BitOf(expanded, x)
                   /\ pc = "expanded" => (BitOf(expanded, x) <=> IsPrimeNumber(x))
                   /\ (pc = "primes" /\ HasDivisorUpTo(x, prime)) => ~BitOf(expanded, x)

\* C9 witness: the least witness generate(7..=11) has expanded 50..=125:
\* 77 = 7 * 11 and 121 = 11 * 11 are cleared, the prime 53 is not.
C9_Witness ==
    /\ pc = "expanded" /\ op = "try_expand" /\ arg = <<50, 125>>
    /\ store.start = 7 /\ store.end = 11 /\ res = Ok("store")
    /\ ~BitOf(expanded, 77) /\ ~BitOf(expanded, 121) /\ BitOf(expanded, 53)

\* C10: try_expand(a..=b) returns NotEnoughData exactly when some integer of
\* [7, isqrt(b)] is outside the range [s, e] of the store, and Ok otherwise.
C10_NotEnoughDataIffUncovered ==
    (op = "try_expand" /\ pc = "expanded") =>
        LET covered == \A x \in 7..sqrt_floor(arg[2]) : InRange(store, x) IN
        /\ (res.tag = "Err") <=> ~covered
        /\ covered => res.tag = "Ok"

(***************************************************************************)
(* data/prime_data.rs: iteration, the n-th prime, factorization            *)
(***************************************************************************)
\* try_iter is PrimeIter::new
try_iter(self, start, end) == PrimeIter_new(self, start, end)

\* Iterator::nth(k): the item after skipping k items, k counted from 0
RECURSIVE PrimeIter_nth(_, _)
PrimeIter_nth(it, k) ==
    LET nx == PrimeIter_next(it) IN
    IF nx.item.tag = "None" THEN None
    ELSE IF k = 0 THEN nx.item
    ELSE PrimeIter_nth(nx.iter, k - 1)

\* estimate/nth_prime.rs, the branch log10(n) < 4 (every n below 10000); the
\* branch of larger n computes its bounds in f64 and is represented by the
\* bounds handed to try_nth_prime_within
nth_prime_bounds(n) == <<0, 104723>>

\* mutant: the primes 2, 3 and 5 are not counted among the skipped ones
try_nth_prime_within_NoSmallPrimes(self, nth, unchecked_start, unchecked_end) ==
    IF nth = 0 THEN OutOfBounds(nth)
    ELSE IF nth <= 3 THEN Ok(<<2, 3, 5>>[nth])
    ELSE
    LET total_primes == count_primes(self) IN
    IF total_primes.tag # "Ok" THEN Panic
    ELSE
    LET cr == contains_range(self.start, self.end, 7, total_primes.val) IN
    IF cr.tag = "Err" THEN NotEnoughData(cr.lo, cr.hi)
    ELSE
    LET start == Max(7, unchecked_start)
        end == Min(self.end, unchecked_end)
        counted == count_primes_in_range(self, 7, start)
        at_start == try_is_prime(self, start)
    IN
    IF counted.tag # "Ok" \/ at_start.tag # "Ok" THEN Panic
    ELSE
    LET skipped == counted.val - (IF at_start.val THEN 1 ELSE 0)
        it == PrimeIter_new(self, start, end)
    IN
    IF it.tag # "Ok" \/ nth - skipped - 1 < 0 THEN Panic
    ELSE LET found == PrimeIter_nth(it.val, nth - skipped - 1) IN
         IF found.tag = "None" THEN Panic ELSE Ok(found.val)

\* try_nth_prime with the result of nth_prime_bounds(nth) given as
\* unchecked_start..=unchecked_end; `skipped` is the local `offset`
try_nth_prime_within(self, nth, unchecked_start, unchecked_end) ==
    IF nth = 0 THEN OutOfBounds(nth)
    ELSE IF nth <= 3 THEN Ok(<<2, 3, 5>>[nth])
    ELSE
    \* self.count_primes() unwraps
    LET total_primes == count_primes(self) IN
    IF total_primes.tag # "Ok" THEN Panic
    ELSE
    LET cr == contains_range(self.start, self.end, 7, total_primes.val) IN
    IF cr.tag = "Err" THEN NotEnoughData(cr.lo, cr.hi)
    ELSE
    LET start == Max(7, unchecked_start)
        end == Min(self.end, unchecked_end)
        counted == count_primes_in_range(self, 7, start)
        at_start == try_is_prime(self, start)
    IN
    \* count_primes_in_range and is_prime unwrap
    IF counted.tag # "Ok" \/ at_start.tag # "Ok" THEN Panic
    ELSE
    LET skipped == 3 + counted.val - (IF at_start.val THEN 1 ELSE 0)
        it == PrimeIter_new(self, start, end)
    IN
    \* self.iter(..) unwraps; nth - offset - 1 below zero overflows (a panic,
    \* or a wrapped index no iterator reaches, which fails the last unwrap)
    IF it.tag # "Ok" \/ nth - skipped - 1 < 0 THEN Panic
    ELSE LET found == PrimeIter_nth(it.val, nth - skipped - 1) IN
         IF found.tag = "None" THEN Panic ELSE Ok(found.val)

try_nth_prime(self, nth) ==
    try_nth_prime_within(self, nth, nth_prime_bounds(nth)[1], nth_prime_bounds(nth)[2])

(***************************************************************************)
(* data/factors/mod.rs.  A Factorization is its HashMap `data`: a function *)
(* from the prime factors to their multiplicities.                          *)
(***************************************************************************)
Factorization_new == [p \in {} |-> 0]

add_factor(data, factor) ==
    IF factor \in DOMAIN data
    THEN [data EXCEPT ![factor] = @ + 1]
    ELSE [p \in (DOMAIN data) \cup {factor} |-> IF p = factor THEN 1 ELSE data[p]]

\* mutant: the prime is divided out once, an `if` in place of the `while`
DivideOut_Once(number, by_prime, factorization) ==
    IF number % by_prime = 0
    THEN [number |-> number \div by_prime, factorization |-> add_factor(factorization, by_prime)]
    ELSE [number |-> number, factorization |-> factorization]

\* `while number % prime == 0` of try_factorize
RECURSIVE DivideOut(_, _, _)
DivideOut(number, by_prime, factorization) ==
    IF number % by_prime = 0
    THEN DivideOut(number \div by_prime, by_prime, add_factor(factorization, by_prime))
    ELSE [number |-> number, factorization |-> factorization]

\* `for prime in self.iter(2..=sqrt)` of try_factorize
RECURSIVE FactorLoop(_, _, _)
FactorLoop(it, number, factorization) ==
    LET nx == PrimeIter_next(it) IN
    IF nx.item.tag = "None"
    THEN [number |-> number, factorization |-> factorization]
    ELSE LET d == DivideOut(number, nx.item.val, factorization)
         IN  FactorLoop(nx.iter, d.number, d.factorization)

\* mutant: the cofactor left after the loop is dropped
try_factorize_NoCofactor(self, x) ==
    LET sqrt == sqrt_floor(x)
        cr == contains_range(self.start, self.end, 2, sqrt)
    IN  IF cr.tag = "Err" THEN NotEnoughData(cr.lo, cr.hi)
        ELSE LET it == PrimeIter_new(self, 2, sqrt) IN
             IF it.tag # "Ok" THEN Panic
             ELSE Ok(FactorLoop(it.val, x, Factorization_new).factorization)

try_factorize(self, x) ==
    LET sqrt == sqrt_floor(x)
        cr == contains_range(self.start, self.end, 2, sqrt)
    IN  IF cr.tag = "Err" THEN NotEnoughData(cr.lo, cr.hi)
        ELSE LET it == PrimeIter_new(self, 2, sqrt) IN
             \* self.iter(..) unwraps
             IF it.tag # "Ok" THEN Panic
             ELSE LET done == FactorLoop(it.val, x, Factorization_new) IN
                  IF done.number > 1
                  THEN Ok(add_factor(done.factorization, done.number))
                  ELSE Ok(done.factorization)

\* Result::unwrap: the Ok value passes, an Err is a panic
unwrap(result) == IF result.tag = "Ok" THEN result ELSE Panic

\* factorize = try_factorize(..).unwrap()
factorize(self, x) == unwrap(try_factorize(self, x))

\* prime_data.factorize(number) on the store generate returned
factorize_generated(prime_data, number) ==
    IF prime_data.tag # "Ok" THEN Panic ELSE factorize(prime_data.val, number)

\* impl From<u64> for Factorization
Factorization_from(number) == factorize_generated(generate(0, sqrt_floor(number)), number)

\* the fold of as_u64 over the entries of the map, in any order
RECURSIVE as_u64(_)
as_u64(data) ==
    IF DOMAIN data = {} THEN 1
    ELSE LET key == CHOOSE p \in DOMAIN data : TRUE
             rest == [p \in (DOMAIN data) \ {key} |-> data[p]]
         IN  (key ^ data[key]) * as_u64(rest)

\* Vec::sort on numbers: insertion into the sorted tail
RECURSIVE Sort(_)
Sort(seq) ==
    IF Len(seq) = 0 THEN <<>>
    ELSE LET sorted == Sort(Tail(seq))
             smaller == SelectSeq(sorted, LAMBDA y : y < Head(seq))
             others == SelectSeq(sorted, LAMBDA y : y >= Head(seq))
         IN  smaller \o <<Head(seq)>> \o others

\* the (prime, amount) entries sorted by prime
as_tuples(data) ==
    LET keys == Sort([j \in 1..Cardinality(DOMAIN data) |->
                        CHOOSE p \in DOMAIN data :
                            Cardinality({q \in DOMAIN data : q < p}) = j - 1])
    IN  [j \in 1..Len(keys) |-> <<keys[j], data[keys[j]]>>]

\* inner_combos.iter().map(|&x| new_factor * x)
Scale(new_factor, combos) == [j \in 1..Len(combos) |-> new_factor * combos[j]]

\* `for pow in from..=amount` of factor_combos
RECURSIVE AppendPowers(_, _, _, _)
AppendPowers(this_prime, pow, amount, inner_combos) ==
    IF pow > amount THEN <<>>
    ELSE Scale(this_prime ^ pow, inner_combos)
         \o AppendPowers(this_prime, pow + 1, amount, inner_combos)

\* mutant: the powers start at 1, so the factors without this prime are lost
RECURSIVE factor_combos_FromOne(_)
factor_combos_FromOne(slice) ==
    IF Len(slice) = 0 THEN <<1>>
    ELSE AppendPowers(slice[1][1], 1, slice[1][2], factor_combos_FromOne(Tail(slice)))

RECURSIVE factor_combos(_)
factor_combos(slice) ==
    IF Len(slice) = 0 THEN <<1>>
    ELSE AppendPowers(slice[1][1], 0, slice[1][2], factor_combos(Tail(slice)))

all_factors(data) == Sort(factor_combos(as_tuples(data)))

\* a method applied to the Factorization that was built, if it was
all_factors_built(factorization) ==
    IF factorization.tag # "Ok" THEN Panic ELSE Ok(all_factors(factorization.val))

as_u64_built(factorization) ==
    IF factorization.tag # "Ok" THEN Panic ELSE Ok(as_u64(factorization.val))

all_factors_of(x) == all_factors_built(Factorization_from(x))

(***************************************************************************)
(* The non-panicking forms on a few stores: SpecTry.                        *)
(***************************************************************************)
\* largest bound of a range handed to the try_ forms
MaxT == 66
\* largest n handed to try_nth_prime
MaxNth == 14
\* largest number handed to try_factorize
MaxF == 130

\* ranges of the stores: the starter range, three blocks from 0, stores that
\* start after 7 or end before it, a store inside the domain with room on
\* both sides, an empty store
TryRanges == {<<0, 30>>, <<0, 64>>, <<8, 12>>, <<0, 6>>, <<31, 64>>, <<20, 40>>, <<7, 6>>}

\* data.try_iter(a..=b), the iterator run to its end
TryIter(a, b) ==
    Query("try_iter", <<a, b>>,
          LET it == try_iter(store, a, b)
          IN  IF it.tag = "Ok" THEN Ok(PrimeIter_collect(it.val)) ELSE it)

\* data.try_expand(a..=b) as one call; the new store is kept in `expanded`
TryExpand(a, b) ==
    /\ pc \in {"new", "ready"}
    /\ pc' = "queried"
    /\ op' = "try_expand"
    /\ arg' = <<a, b>>
    /\ LET r == try_expand(store, a, b) IN
       /\ res' = IF r.tag = "Ok" THEN Ok("store") ELSE r
       /\ expanded' = IF r.tag = "Ok" THEN r.val ELSE expanded
    /\ UNCHANGED <<store, piter, citer, prime>>

\* data.try_nth_prime(n)
TryNthPrime(n) == Query("try_nth_prime", <<n>>, try_nth_prime(store, n))

\* data.try_factorize(x)
TryFactorize(x) == Query("try_factorize", <<x>>, try_factorize(store, x))

GenerateTry == AtNew /\ \E r \in TryRanges : Generate(r[1], r[2])

TryIterStep == HoldsStore /\ \E a \in 0..MaxT, b \in 0..MaxT : TryIter(a, b)

TryCountStep == HoldsStore /\ \E a \in 0..MaxT, b \in 0..MaxT : TryCountPrimesInRange(a, b)

TryExpandStep == HoldsStore /\ \E a \in 0..MaxT, b \in 0..MaxT : TryExpand(a, b)

TryNthPrimeStep == HoldsStore /\ \E n \in 0..MaxNth : TryNthPrime(n)

TryFactorizeStep == HoldsStore /\ \E x \in 0..MaxF : TryFactorize(x)

NextTry ==
    \/ GenerateTry
    \/ TryIterStep
    \/ TryCountStep
    \/ TryExpandStep
    \/ CheckPrimeStep
    \/ TryNthPrimeStep
    \/ TryFactorizeStep

SpecTry == Init /\ [][NextTry]_vars

\* the inclusive range <<lo, hi>> the last operation needs the store to cover
Required ==
    CASE op \in {"try_iter", "try_count_primes_in_range"} -> <<arg[1], arg[2]>>
      [] op = "try_expand" -> <<7, sqrt_floor(arg[2])>>
      [] op = "try_check_prime" -> <<7, sqrt_floor(arg[1])>>
      [] op = "try_nth_prime" -> <<7, count_primes(store).val>>
      [] op = "try_factorize" -> <<2, sqrt_floor(arg[1])>>
      [] OTHER -> <<1, 0>>

\* the integers of lo..hi outside the range of s
Uncovered(s, lo, hi) == {x \in lo..hi : ~InRange(s, x)}

IsNotEnoughData(r) == r.tag = "Err" /\ r.kind = "NotEnoughData"

\* C11: when an operation fails with NotEnoughData(r) on a required range R
\* that the store does not cover, the integers of r are exactly the integers
\* of R outside the range of the store.
C11_ErrorRangeIsUncoveredPart ==
    (IsNotEnoughData(res) /\ Uncovered(store, Required[1], Required[2]) # {})
        => (res.lo)..(res.hi) = Uncovered(store, Required[1], Required[2])

\* C15: try_iter, try_count_primes_in_range and try_expand return Ok or Err
\* for every range argument, reversed ranges included; none of them panics.
C15_TryFormsAreTotal ==
    (op \in {"try_iter", "try_count_primes_in_range", "try_expand"})
        => res.tag \in {"Ok", "Err"}

(***************************************************************************)
(* Iteration over sub-ranges of a store: SpecIter.                          *)
(***************************************************************************)
\* largest range end of the stores iterated in the small domain
MaxI == 66

\* range starts of those stores: every start up to 8, and the starts around
\* the second block
IterStarts == (0..8) \cup {29, 30, 31}

\* stores beyond the small domain
IterBigRanges == {<<0, 1000>>, <<870, 961>>, <<31, 910>>}

\* the windows the sub-ranges of a store are drawn from
IterWindows(s) ==
    IF s.end > MaxI THEN {<<470, 492>>, <<880, 910>>} ELSE {<<0, MaxI>>}

\* iter = try_iter(..).unwrap(), the iterator run to its end
Iter(a, b) ==
    Query("iter", <<a, b>>,
          LET it == try_iter(store, a, b)
          IN  IF it.tag = "Ok" THEN Ok(PrimeIter_collect(it.val)) ELSE Panic)

GenerateIterSmall == AtNew /\ \E a \in IterStarts, b \in 0..MaxI : Generate(a, b)

GenerateIterBig == AtNew /\ \E r \in IterBigRanges : Generate(r[1], r[2])

\* the sub-ranges a <= b of the store's range inside a window
IterStep ==
    /\ HoldsStore
    /\ \E w \in IterWindows(store) :
           \E a \in Max(w[1], store.start)..Min(w[2], store.end) :
               \E b \in a..Min(w[2], store.end) : Iter(a, b)

NextIter ==
    \/ GenerateIterSmall
    \/ GenerateIterBig
    \/ IterStep

SpecIter == Init /\ [][NextIter]_vars

Ascending(seq) == \A j \in 1..(Len(seq) - 1) : seq[j] < seq[j + 1]

Elements(seq) == {seq[j] : j \in 1..Len(seq)}

\* C12: on a store generate(s..=e), iter(a..=b) of a sub-range a <= b inside
\* [s, e] yields the primes p with a <= p <= b and nothing else, each once, in
\* strictly ascending order (2, 3 and 5 included, nothing from a padding bit,
\* nothing at all when the sub-range holds no prime).
C12_IterYieldsPrimesOfRange ==
    (op = "iter" /\ arg[1] <= arg[2] /\ store.start <= arg[1] /\ arg[2] <= store.end)
        => /\ res.tag = "Ok"
           /\ Ascending(res.val)
           /\ Elements(res.val) = {p \in arg[1]..arg[2] : IsPrimeNumber(p)}

\* C12 witness: generate(0..=1000) restricted to 472..=491 yields 479, 487
\* and 491, the last one on the upper bound.
C12_Witness ==
    op = "iter" /\ store.start = 0 /\ store.end = 1000 /\ arg = <<472, 491>>
    /\ res = Ok(<<479, 487, 491>>)

(***************************************************************************)
(* The n-th prime: SpecNth.  try_nth_prime is called with the bounds of    *)
(* nth_prime_bounds (n below 10000), and its body is also run on every     *)
(* narrow interval lo..=hi standing for the bounds of a larger n.          *)
(***************************************************************************)
\* largest range end of the stores asked for their n-th prime
MaxNthEnd == 40
\* largest width hi - lo of an interval handed over as the estimator bounds
MaxWidth == 4

\* range starts of those stores, at or before 7 and after it
NthStarts == {0, 3, 7, 8}

\* the body of try_nth_prime on the estimator bounds lo..=hi
TryNthPrimeWithin(n, lo, hi) ==
    Query("try_nth_prime_within", <<n, lo, hi>>, try_nth_prime_within(store, n, lo, hi))

GenerateNth == AtNew /\ \E a \in NthStarts, b \in 0..MaxNthEnd : Generate(a, b)

NthPrimeWithinStep ==
    /\ HoldsStore
    /\ \E n \in 1..MaxNth, lo \in 0..MaxNthEnd :
           \E hi \in lo..(lo + MaxWidth) : TryNthPrimeWithin(n, lo, hi)

NextNth ==
    \/ GenerateNth
    \/ TryNthPrimeStep
    \/ NthPrimeWithinStep

SpecNth == Init /\ [][NextNth]_vars

\* the primes the n-th prime is looked up in: more than MaxNth of them
PrimesKnown == {p \in 2..(4 * MaxNth) : IsPrimeNumber(p)}

\* p(n), the n-th prime number, n in 1..MaxNth
NthPrimeNumber(n) == CHOOSE p \in PrimesKnown : Cardinality({q \in PrimesKnown : q <= p}) = n

\* the estimator bounds the last call of try_nth_prime worked with
BoundsUsed ==
    IF op = "try_nth_prime_within" THEN <<arg[2], arg[3]>> ELSE nth_prime_bounds(arg[1])

\* C13: on a store that starts at or before 7 and ends at or after p(n), with
\* estimator bounds that contain p(n), nth_prime(n) is p(n) for every n >= 1
\* (1, 2, 3 give 2, 3, 5 on any store), and for n >= 4 the number k of primes
\* it skips, 3 + count_primes_in_range(7..=lo) - [lo is prime] with
\* lo = max(7, lower bound), is the number of primes below lo.
C13_NthPrimeExact ==
    (op \in {"try_nth_prime", "try_nth_prime_within"} /\ arg[1] >= 1) =>
        LET n == arg[1]
            lo == Max(7, BoundsUsed[1])
        IN  /\ n <= 3 => res = Ok(NthPrimeNumber(n))
            /\ (/\ store.start <= 7 /\ NthPrimeNumber(n) <= store.end
                /\ BoundsUsed[1] <= NthPrimeNumber(n) /\ NthPrimeNumber(n) <= BoundsUsed[2])
                   => /\ res = Ok(NthPrimeNumber(n))
                      /\ n >= 4 =>
                           3 + count_primes_in_range(store, 7, lo).val
                             - (IF try_is_prime(store, lo).val THEN 1 ELSE 0)
                           = Cardinality({q \in PrimesKnown : q < lo})

\* C13 witness: the 12th prime, 37, found on generate(3..=40) from the bounds
\* 33..=37: the eleven primes below 33 are skipped by counting.
C13_Witness ==
    op = "try_nth_prime_within" /\ arg = <<12, 33, 37>>
    /\ store.start = 3 /\ store.end = 40 /\ res = Ok(37)

\* C14: try_nth_prime(0) is the OutOfBounds error, and for n >= 4 a store
\* that starts after 7, or that does not hold n primes, gets a NotEnoughData
\* error: no panic and no number.
C14_NthPrimeErrors ==
    (op = "try_nth_prime") =>
        /\ arg[1] = 0 => res = OutOfBounds(0)
        /\ (arg[1] >= 4 /\ (store.start > 7 \/ NthPrimeNumber(arg[1]) > store.end))
               => IsNotEnoughData(res)

(***************************************************************************)
(* Factorization: SpecFactors.                                              *)
(***************************************************************************)
\* largest range end of the stores handed to try_factorize
MaxFactorEnd == 12

\* range starts of those stores
FactorStarts == {0, 1, 2, 3}

\* Factorization::from(x).as_u64()
FromAsU64(x) ==
    /\ pc = "new"
    /\ Query("from_as_u64", <<x>>, as_u64_built(Factorization_from(x)))

\* prime_data::all_factors_of(x)
AllFactorsOf(x) ==
    /\ pc = "new"
    /\ Query("all_factors_of", <<x>>, all_factors_of(x))

GenerateFactors == AtNew /\ \E a \in FactorStarts, b \in 0..MaxFactorEnd : Generate(a, b)

FromAsU64Step == AtNew /\ \E x \in 0..MaxF : FromAsU64(x)

AllFactorsOfStep == AtNew /\ \E x \in 0..MaxF : AllFactorsOf(x)

NextFactors ==
    \/ GenerateFactors
    \/ TryFactorizeStep
    \/ FromAsU64Step
    \/ AllFactorsOfStep

SpecFactors == Init /\ [][NextFactors]_vars

\* the product of p^m over a list of pairs <<p, m>>
RECURSIVE PairsProduct(_)
PairsProduct(pairs) ==
    IF Len(pairs) = 0 THEN 1
    ELSE (Head(pairs)[1] ^ Head(pairs)[2]) * PairsProduct(Tail(pairs))

\* C16: for x >= 1, Factorization::from(x).as_u64() is x, and on a store
\* whose range has 2..=isqrt(x) inside it (starts at or before 2, ends at or
\* after isqrt(x)) the pairs (p, m) of factorize(x) multiply to x.
C16_FactorizationRoundTrip ==
    /\ (op = "from_as_u64" /\ arg[1] >= 1) => res = Ok(arg[1])
    /\ (op = "try_factorize" /\ arg[1] >= 1
        /\ store.start <= 2 /\ sqrt_floor(arg[1]) <= store.end)
           => (res.tag = "Ok" /\ PairsProduct(as_tuples(res.val)) = arg[1])

\* C16 witness: 126 = 2 * 3^2 * 7 factorized on generate(2..=11), the
\* cofactor 7 left after the loop divided by 2 and 3.
C16_Witness ==
    op = "try_factorize" /\ arg = <<126>> /\ store.start = 2 /\ store.end = 11
    /\ res.tag = "Ok" /\ as_tuples(res.val) = <<<<2, 1>>, <<3, 2>>, <<7, 1>>>>

\* C17: all_factors_of(x) has length 1 exactly when x = 1 and length 2
\* exactly when x is prime, for every x.
C17_FactorCountOneAndTwo ==
    (op = "all_factors_of") =>
        /\ res.tag = "Ok"
        /\ (Len(res.val) = 1) <=> (arg[1] = 1)
        /\ (Len(res.val) = 2) <=> IsPrimeNumber(arg[1])

\* C18: for x >= 1, all_factors_of(x) lists the positive divisors of x, each
\* once, in strictly ascending order, from 1 to x.
C18_AllFactorsAreTheDivisors ==
    (op = "all_factors_of" /\ arg[1] >= 1) =>
        /\ res.tag = "Ok"
        /\ Ascending(res.val)
        /\ Elements(res.val) = {d \in 1..arg[1] : arg[1] % d = 0}
        /\ res.val[1] = 1
        /\ res.val[Len(res.val)] = arg[1]

\* C18 witness: the eight divisors of 30.
C18_Witness ==
    op = "all_factors_of" /\ arg = <<30>> /\ res = Ok(<<1, 2, 3, 5, 6, 10, 15, 30>>)

(***************************************************************************)
(* CoprimeIter driven one next() per step: SpecCoprime.  `res` holds the   *)
(* values yielded so far.                                                   *)
(***************************************************************************)
\* largest bound of a range handed to CoprimeIter::new
MaxC == 70

\* let iter = CoprimeIter::new(start..=end)
CoprimeNew(start, end) ==
    /\ pc = "new"
    /\ pc' = "coprime"
    /\ op' = "coprime_iter"
    /\ arg' = <<start, end>>
    /\ res' = Ok(<<>>)
    /\ citer' = CoprimeIter_new(start, end)
    /\ UNCHANGED <<store, expanded, piter, prime>>

\* iter.next()
CoprimeNext ==
    /\ pc = "coprime"
    /\ LET nx == CoprimeIter_next(citer) IN
       IF nx.item.tag = "None"
       THEN /\ pc' = "coprime_done"
            /\ UNCHANGED <<res, citer>>
       ELSE /\ res' = Ok(Append(res.val, nx.item.val))
            /\ citer' = nx.iter
            /\ UNCHANGED pc
    /\ UNCHANGED <<store, op, arg, expanded, piter, prime>>

CoprimeNewStep == AtNew /\ \E start \in 0..MaxC, end \in 0..MaxC : CoprimeNew(start, end)

NextCoprime ==
    \/ CoprimeNewStep
    \/ CoprimeNext

SpecCoprime == Init /\ [][NextCoprime]_vars

\* the integers of start..end that are coprime with 30
CoprimesBetween(start, end) == {v \in start..end : v % 2 # 0 /\ v % 3 # 0 /\ v % 5 # 0}

\* C19: CoprimeIter::new(start..=end) yields the integers v of [start, end]
\* with v mod 30 a k-value, each once, in strictly ascending order and nothing
\* else (nothing when start > end or when there is none); the first value is
\* the least such v >= start, the initial index being that of the first
\* k-value >= start mod 30.
C19_CoprimeIterYieldsCoprimes ==
    (op = "coprime_iter") =>
        LET wanted == CoprimesBetween(arg[1], arg[2])
            yielded == res.val
        IN  /\ Ascending(yielded)
            /\ Elements(yielded) \subseteq wanted
            \* what was yielded is an initial part of the wanted values
            /\ \A v \in wanted : \A y \in Elements(yielded) : v < y => v \in Elements(yielded)
            /\ pc = "coprime_done" => Elements(yielded) = wanted
            /\ (pc = "coprime" /\ Len(yielded) = 0) =>
                   /\ K_VALUES[citer.index + 1] >= arg[1] % 30
                   /\ \A i \in 1..citer.index : K_VALUES[i] < arg[1] % 30
            /\ Len(yielded) >= 1 =>
                   yielded[1] = CHOOSE v \in wanted : \A w \in wanted : v <= w

\* C19 witness: CoprimeIter::new(8..=22) has yielded 11, 13, 17, 19 and ended.
C19_Witness ==
    pc = "coprime_done" /\ op = "coprime_iter" /\ arg = <<8, 22>>
    /\ res = Ok(<<11, 13, 17, 19>>)

(***************************************************************************)
(* PrimeByte::set_nonprime on every byte: SpecByte.  `res` holds what the  *)
(* call returned together with the byte afterwards.                         *)
(***************************************************************************)
\* largest k handed to PrimeByte::set_nonprime
MaxK == 31

\* every value of the u8 field
AllBytes == 0..PrimeByte_new

\* PrimeByte::from(byte).set_nonprime(k)
SetNonprime(byte, k) ==
    /\ pc \in {"new", "byte"}
    /\ pc' = "byte"
    /\ op' = "set_nonprime"
    /\ arg' = <<byte, k>>
    /\ res' = PrimeByte_set_nonprime(byte, k)
    /\ UNCHANGED <<store, sieve>>

SetNonprimeStep == AtNew /\ \E byte \in AllBytes, k \in 0..MaxK : SetNonprime(byte, k)

\* the same call once more on the byte the first one left
SetNonprimeAgain ==
    /\ pc = "byte"
    /\ op = "set_nonprime"
    /\ SetNonprime(res.byte, arg[2])

NextByte ==
    \/ SetNonprimeStep
    \/ SetNonprimeAgain

SpecByte == Init /\ [][NextByte]_vars

\* bit number pos of a byte, pos = 0 the least significant
BitAt(byte, pos) == (byte \div (2 ^ pos)) % 2

\* the bit number of the k-value k: 1 has bit 7, 29 has bit 0
BitNumberOf(k) == 8 - (CHOOSE i \in 1..8 : K_VALUES[i] = k)

IsKValue(k) == \E i \in 1..8 : K_VALUES[i] = k

\* C20: set_nonprime(k) on any byte: with k a k-value whose bit is 1 it
\* clears that bit, leaves the other seven and returns Ok(true); with the bit
\* already 0 it returns Ok(false) and leaves the byte; with k no k-value it
\* returns Err and leaves the byte.
C20_SetNonprimeFrame ==
    (op = "set_nonprime") =>
        LET byte == arg[1]
            k == arg[2]
        IN  IF ~IsKValue(k) THEN res.tag = "Err" /\ res.byte = byte
            ELSE IF BitAt(byte, BitNumberOf(k)) = 1
            THEN /\ res.tag = "Ok" /\ res.val = TRUE
                 /\ BitAt(res.byte, BitNumberOf(k)) = 0
                 /\ \A pos \in 0..7 :
                        pos # BitNumberOf(k) => BitAt(res.byte, pos) = BitAt(byte, pos)
            ELSE res = [tag |-> "Ok", val |-> FALSE, byte |-> byte]

\* C20 witness: set_nonprime(7) on 10111111, the byte a first set_nonprime(7)
\* leaves of 11111111, returns Ok(false) and leaves the byte as it is.
C20_Witness ==
    op = "set_nonprime" /\ arg = <<191, 7>>
    /\ res = [tag |-> "Ok", val |-> FALSE, byte |-> 191]

(***************************************************************************)
(* PrimeByte::overwrite_at: SpecOverwrite.  The u8 arithmetic of the body  *)
(* is checked for overflow in a build with overflow checks (the dev        *)
(* profile), where it panics, and wraps in a build without them (the       *)
(* release profile); `checks` tells which build runs.                      *)
(***************************************************************************)
\* largest position handed to overwrite_at
MaxPos == 9

\* u8 - u8: a panic with overflow checks, the wrapped difference without
Sub8(a, b, checks) ==
    IF a >= b THEN Ok(a - b) ELSE IF checks THEN Panic ELSE Ok(a - b + 256)

\* u8 + u8: a panic with overflow checks, the wrapped sum without
Add8(a, b, checks) ==
    IF a + b <= 255 THEN Ok(a + b) ELSE IF checks THEN Panic ELSE Ok((a + b) % 256)

\* u8 >> amount: an amount of 8 or more is a panic with overflow checks and
\* is taken modulo 8 without
Shr8(byte, amount, checks) ==
    IF amount < 8 THEN Ok(Shr(byte, amount))
    ELSE IF checks THEN Panic ELSE Ok(Shr(byte, amount % 8))

\* u8 << amount, the bits shifted out are dropped
Shl8(byte, amount, checks) ==
    IF amount < 8 THEN Ok((byte * (2 ^ amount)) % 256)
    ELSE IF checks THEN Panic ELSE Ok((byte * (2 ^ (amount % 8))) % 256)

\* (byte >> amount) << amount with amount = 8 - position already computed
ShrShl8(byte, amount, checks) ==
    IF amount.tag # "Ok" THEN Panic
    ELSE IF amount.val >= 8 /\ checks THEN Panic
    ELSE Shl8(Shr8(byte, amount.val, checks).val, amount.val, checks)

\* (byte << position) >> position
ShlShr8(byte, position, checks) ==
    IF position >= 8 /\ checks THEN Panic
    ELSE Shr8(Shl8(byte, position, checks).val, position, checks)

\* clear_byte + new_bits
AddParts(clear_byte, new_bits, checks) ==
    IF clear_byte.tag # "Ok" \/ new_bits.tag # "Ok" THEN Panic
    ELSE Add8(clear_byte.val, new_bits.val, checks)

\* self.byte after overwrite_at(overwriting, position), or a panic
overwrite_at(byte, overwriting, position, checks) ==
    IF position = 0 THEN Ok(overwriting)
    ELSE AddParts(ShrShl8(byte, Sub8(8, position, checks), checks),
                  ShlShr8(overwriting, position, checks), checks)

\* original.overwrite_at(new_bits, position) in a build with or without
\* overflow checks
OverwriteAt(byte, overwriting, position, checks) ==
    /\ pc = "new"
    /\ pc' = "byte"
    /\ op' = "overwrite_at"
    /\ arg' = <<byte, overwriting, position, checks>>
    /\ res' = overwrite_at(byte, overwriting, position, checks)
    /\ UNCHANGED <<store, sieve>>

OverwriteAtStep ==
    /\ AtNew
    /\ \E byte \in AllBytes, overwriting \in AllBytes, position \in 0..MaxPos,
          checks \in BOOLEAN : OverwriteAt(byte, overwriting, position, checks)

NextOverwrite ==
    \/ OverwriteAtStep

SpecOverwrite == Init /\ [][NextOverwrite]_vars

\* bit number i of a byte counted from the most significant bit, i in 0..7
BitFromTop(byte, i) == BitAt(byte, 7 - i)

\* C21: overwrite_at(other, position) with position in 0..=7 leaves the
\* first `position` bits (from the most significant one) of the receiver and
\* takes the bits position..7 of `other`, position 0 replacing the whole
\* byte, the sum of the two parts never overflowing; with position > 7 the
\* call panics.
C21_OverwriteAt ==
    (op = "overwrite_at") =>
        LET byte == arg[1]
            other == arg[2]
            position == arg[3]
        IN  IF position <= 7
            THEN /\ res.tag = "Ok"
                 /\ \A i \in 0..7 :
                        BitFromTop(res.val, i) =
                            IF i < position THEN BitFromTop(byte, i) ELSE BitFromTop(other, i)
            ELSE res = Panic

(***************************************************************************)
(* PrimeByte::is_prime on every byte and every u8: SpecByteIsPrime         *)
(***************************************************************************)
\* largest u8
MaxU8 == 255

\* byte.is_prime(x)
ByteIsPrime(byte, x) ==
    /\ pc = "new"
    /\ pc' = "byte"
    /\ op' = "byte_is_prime"
    /\ arg' = <<byte, x>>
    /\ res' = Ok(PrimeByte_is_prime(byte, x))
    /\ UNCHANGED <<store, sieve>>

ByteIsPrimeStep ==
    /\ AtNew
    /\ \E byte \in AllBytes, x \in 0..MaxU8 : ByteIsPrime(byte, x)

NextByteIsPrime ==
    \/ ByteIsPrimeStep

SpecByteIsPrime == Init /\ [][NextByteIsPrime]_vars

\* C24: PrimeByte::is_prime is total: for every byte and every u8 x it
\* returns true exactly when x is one of 1, 7, 11, 13, 17, 19, 23, 29 and the
\* bit of x in the byte is 1, and false for every other x (2, 3, 5 and
\* x >= 30 included); it never fails.
C24_ByteIsPrimeTotal ==
    (op = "byte_is_prime") =>
        /\ res.tag = "Ok"
        /\ res.val \in BOOLEAN
        /\ res.val = (/\ arg[2] \in {1, 7, 11, 13, 17, 19, 23, 29}
                      /\ BitAt(arg[1], BitNumberOf(arg[2])) = 1)

\* 0b10000000.is_prime(31) is false although 31 has the residue 1, whose bit
\* is set
C24_Witness == op = "byte_is_prime" /\ arg = <<128, 31>> /\ res = Ok(FALSE)

(***************************************************************************)
(* Stores of every range, reversed ones included, iterated and counted as  *)
(* a whole: SpecAll                                                        *)
(***************************************************************************)
\* iter = try_iter(..).unwrap()
iter(self, start, end) ==
    LET it == try_iter(self, start, end) IN IF it.tag = "Ok" THEN it ELSE Panic

\* self.iter(self.range.clone())
iter_all(self) == iter(self, self.start, self.end)

\* data.iter_all().collect::<Vec<u64>>()
IterAll ==
    Query("iter_all", <<>>,
          LET it == iter_all(store)
          IN  IF it.tag = "Ok" THEN Ok(PrimeIter_collect(it.val)) ELSE Panic)

IterAllStep == HoldsStore /\ IterAll

NextAll ==
    \/ GenerateSmall
    \/ CountPrimesStep
    \/ IterAllStep

SpecAll == Init /\ [][NextAll]_vars

\* C22: generate(a..=b) with a > b returns, without an error, a store whose
\* range() is (a, b), whose is_empty() is true, whose count_primes() is 0 and
\* whose iter_all() yields nothing; is_empty() is true exactly when
\* start > end.
C22_ReversedRangeGivesEmptyStore ==
    /\ (op = "generate") =>
           /\ res = Ok("store")
           /\ store.start = arg[1] /\ store.end = arg[2]
           /\ is_empty(store) <=> (arg[1] > arg[2])
    /\ (op = "count_primes" /\ store.start > store.end) => res = Ok(0)
    /\ (op = "iter_all" /\ store.start > store.end) => res = Ok(<<>>)

(***************************************************************************)
(* The layout of the stores that generate and expand return: SpecLayout    *)
(***************************************************************************)
\* range starts at, just below and just above the block borders
LayoutStarts == {0, 1, 29, 30, 31, 59, 60}

\* the ends of the ranges
LayoutEnds == (0..MaxN) \cup BigEnds

GenerateLayout == AtNew /\ \E a \in LayoutStarts, b \in 0..MaxN : Generate(a, b)

LayoutExpandStep == HoldsStore /\ \E a \in LayoutStarts, b \in LayoutEnds : TryExpand(a, b)

NextLayout ==
    \/ GenerateLayout
    \/ GenerateBig
    \/ LayoutExpandStep

SpecLayout == Init /\ [][NextLayout]_vars

\* the layout of a store s built for a..=b
Layout(s, a, b) ==
    /\ s.start = a /\ s.end = b
    /\ offset(s) = a \div 30
    /\ Len(s.data) = div_ceil(b, 30) - (a \div 30)
    /\ \A x \in a..b :
           (x % 30 # 0) =>
               LET index == data_index_that_contains(s, x) IN
               /\ index = Some((x \div 30) - offset(s))
               /\ index.val \in 0..(Len(s.data) - 1)
               \* block j holds the numbers 30 * (offset + j) + k
               /\ IsKValue(x % 30) =>
                      (PrimeByte_is_prime(s.data[index.val + 1], x % 30) = IsPrimeNumber(x))

\* C23: every store returned by generate(a..=b) or expand(a..=b) with a <= b
\* has range() = (a, b), offset() = floor(a / 30) and exactly
\* ceil(b / 30) - floor(a / 30) blocks, block j covering
\* [30 * (offset + j), 30 * (offset + j + 1)): every x in [a, b] that is not a
\* multiple of 30 has the existing block index floor(x / 30) - offset, the
\* index lookup neither panics nor underflows.
C23_StoreLayout ==
    /\ (op = "generate" /\ arg[1] <= arg[2]) =>
           (res = Ok("store") /\ Layout(store, arg[1], arg[2]))
    /\ (op = "try_expand" /\ res.tag = "Ok" /\ arg[1] <= arg[2]) =>
           Layout(expanded, arg[1], arg[2])

\* generate(0..=30).expand(59..=900) has the 29 blocks 1..29, and 899 is in
\* the last one
C23_Witness ==
    /\ op = "try_expand" /\ arg = <<59, 900>> /\ res.tag = "Ok"
    /\ store.start = 0 /\ store.end = 30
    /\ offset(expanded) = 1 /\ Len(expanded.data) = 29
    /\ data_index_that_contains(expanded, 899) = Some(28)

(***************************************************************************)
(* The iterators called again after their first None: SpecFused            *)
(***************************************************************************)
\* largest bound of a sub-range handed to iter
MaxFused == 66

\* how many times next() is called after the first None
MaxAfter == 3

\* the None items of a sequence of items
NoneCount(items) == Cardinality({j \in 1..Len(items) : items[j] = None})

\* let mut iter = data.try_iter(a..=b)?
PrimeIterNew(a, b) ==
    /\ pc \in {"new", "ready"}
    /\ op' = "prime_iter"
    /\ arg' = <<a, b>>
    /\ LET it == try_iter(store, a, b) IN
       IF it.tag = "Ok"
       THEN /\ pc' = "prime_iter"
            /\ piter' = it.val
            /\ res' = Ok(<<>>)
       ELSE /\ pc' = "queried"
            /\ res' = it
            /\ UNCHANGED piter
    /\ UNCHANGED <<store, expanded, citer, prime>>

\* iter.next(); the items returned so far are kept, the None ones included
PrimeNext ==
    /\ pc = "prime_iter"
    /\ NoneCount(res.val) < MaxAfter
    /\ LET nx == PrimeIter_next(piter) IN
       /\ res' = Ok(Append(res.val, nx.item))
       /\ piter' = nx.iter
    /\ UNCHANGED <<pc, store, op, arg, expanded, citer, prime>>

\* let mut iter = CoprimeIter::new(start..=end)
CoprimeIterNew(start, end) ==
    /\ pc = "new"
    /\ pc' = "coprime_iter"
    /\ op' = "coprime_next"
    /\ arg' = <<start, end>>
    /\ res' = Ok(<<>>)
    /\ citer' = CoprimeIter_new(start, end)
    /\ UNCHANGED <<store, expanded, piter, prime>>

\* iter.next(); the items returned so far are kept, the None ones included
CoprimeIterNext ==
    /\ pc = "coprime_iter"
    /\ NoneCount(res.val) < MaxAfter
    /\ LET nx == CoprimeIter_next(citer) IN
       /\ res' = Ok(Append(res.val, nx.item))
       /\ citer' = nx.iter
    /\ UNCHANGED <<pc, store, op, arg, expanded, piter, prime>>

PrimeIterNewStep == HoldsStore /\ \E a \in 0..MaxFused, b \in 0..MaxFused : PrimeIterNew(a, b)

CoprimeIterNewStep ==
    AtNew /\ \E start \in 0..MaxFused, end \in 0..MaxFused : CoprimeIterNew(start, end)

NextFused ==
    \/ GenerateTry
    \/ PrimeIterNewStep
    \/ PrimeNext
    \/ CoprimeIterNewStep
    \/ CoprimeIterNext

SpecFused == Init /\ [][NextFused]_vars

\* every item after a None is None, and the values before it ascend strictly
Fused(items) ==
    \A j \in 1..(Len(items) - 1) :
        IF items[j] = None
        THEN items[j + 1] = None
        ELSE items[j + 1] = None \/ items[j].val < items[j + 1].val

\* C25: PrimeIter (over any store and contained sub-range) and CoprimeIter
\* are exhausted for good after their first None: every later next() returns
\* None too, whether the blocks ran out or the next value exceeded the upper
\* bound; before that each next() returns a strictly larger value.
C25_IteratorsStayExhausted ==
    (pc \in {"prime_iter", "coprime_iter"}) => Fused(res.val)

\* generate(0..=64).iter(0..=10) stopped by 11 > 10 and called twice more
C25_Witness ==
    /\ pc = "prime_iter" /\ store.end = 64 /\ arg = <<0, 10>>
    /\ res = Ok(<<Some(2), Some(3), Some(5), Some(7), None, None, None>>)
    /\ piter.primes.tag = "Some"

(***************************************************************************)
(* PrimeData::generate call by call and sieve step by sieve step:          *)
(* SpecGenerate.  `arg` holds the ranges of the calls of generate that     *)
(* have not returned, the outermost first; `store` is the store the        *)
(* innermost of them expands.                                              *)
(***************************************************************************)
\* ranges whose generate recurses twice: 811801 = 901 * 901
DeepRanges == {<<811801, 811830>>, <<811770, 811801>>}

\* ranges whose generate recurses once, or not at all
ShallowRanges == {<<0, 961>>, <<870, 961>>, <<31, 901>>, <<0, 900>>, <<899, 900>>, <<961, 870>>}

\* largest bound of the small ranges
MaxG == 50

\* mutant: the inner store ends one short of the square root
GenerateInner_Short(end) == <<0, sqrt_floor(end) - 1>>

\* the range 0..=sqrt_end of the recursive call
GenerateInner(end) == <<0, sqrt_floor(end)>>

\* the range of the innermost call
Top == arg[Len(arg)]

\* PrimeData::generate(a..=b) is called
GenerateCall(a, b) ==
    /\ pc = "new"
    /\ pc' = "gen_call"
    /\ op' = "generate_call"
    /\ arg' = <<<<a, b>>>>
    /\ res' = None
    /\ UNCHANGED <<store, sieve>>

\* `if end <= 900`: the starter data is expanded, or generate calls itself
GenerateDescend ==
    /\ pc = "gen_call"
    /\ IF Top[2] <= GenerateBase
       THEN /\ pc' = "gen_expand"
            /\ store' = PrimeData_new
            /\ UNCHANGED arg
       ELSE /\ arg' = Append(arg, GenerateInner(Top[2]))
            /\ UNCHANGED <<pc, store>>
    /\ UNCHANGED <<op, res, sieve>>

\* store.expand(range) of the innermost call up to the head of the outer
\* loop; a NotEnoughData is unwrapped
GenerateExpandBegin ==
    /\ pc = "gen_expand"
    /\ LET end_sqrt == sqrt_floor(Top[2])
           cr == contains_range(store.start, store.end, 7, end_sqrt)
           expanded_data == create_empty(Top[1], Top[2])
           it == PrimeIter_new(store, 7, end_sqrt)
       IN  IF cr.tag = "Err"
           THEN /\ res' = NotEnoughData(cr.lo, cr.hi)
                /\ pc' = "gen_failed"
                /\ UNCHANGED <<expanded, piter>>
           ELSE IF is_empty(expanded_data)
           THEN /\ pc' = "gen_return"
                /\ expanded' = expanded_data
                /\ UNCHANGED <<res, piter>>
           ELSE IF it.tag # "Ok"
           THEN /\ res' = Panic
                /\ pc' = "gen_failed"
                /\ expanded' = expanded_data
                /\ UNCHANGED piter
           ELSE /\ pc' = "gen_primes"
                /\ expanded' = expanded_data
                /\ piter' = it.val
                /\ UNCHANGED res
    /\ UNCHANGED <<store, op, arg, citer, prime>>

\* the head of `for prime in self.iter(7..=end_sqrt)`
GenerateNextPrime ==
    /\ pc = "gen_primes"
    /\ LET nx == PrimeIter_next(piter) IN
       IF nx.item.tag = "None"
       THEN /\ pc' = "gen_return"
            /\ UNCHANGED <<piter, citer, prime>>
       ELSE /\ pc' = "gen_multiples"
            /\ prime' = nx.item.val
            /\ piter' = nx.iter
            /\ citer' = MultiplierIter(nx.item.val, Top[1], Top[2])
    /\ UNCHANGED <<store, op, arg, res, expanded>>

\* the head and body of `for multiplier in CoprimeIter::new(..)`
GenerateStrike ==
    /\ pc = "gen_multiples"
    /\ LET nx == CoprimeIter_next(citer) IN
       IF nx.item.tag = "None"
       THEN /\ pc' = "gen_primes"
            /\ UNCHANGED <<expanded, citer, res>>
       ELSE LET composite_number == prime * nx.item.val
                r == PrimeData_set_nonprime(expanded, composite_number)
            IN  IF r.tag = "Ok"
                THEN /\ expanded' = r.store
                     /\ citer' = nx.iter
                     /\ UNCHANGED <<pc, res>>
                ELSE /\ res' = Panic
                     /\ pc' = "gen_failed"
                     /\ UNCHANGED <<expanded, citer>>
    /\ UNCHANGED <<store, op, arg, piter, prime>>

\* the innermost call returns its store to its caller, which expands it
GenerateReturn ==
    /\ pc = "gen_return"
    /\ store' = expanded
    /\ IF Len(arg) = 1
       THEN /\ pc' = "gen_done"
            /\ res' = Ok("store")
            /\ UNCHANGED arg
       ELSE /\ pc' = "gen_expand"
            /\ arg' = SubSeq(arg, 1, Len(arg) - 1)
            /\ UNCHANGED res
    /\ UNCHANGED <<op, sieve>>

GenerateCallSmall == AtNew /\ \E a \in 0..MaxG, b \in 0..MaxG : GenerateCall(a, b)

GenerateCallBig == AtNew /\ \E r \in ShallowRanges \cup DeepRanges : GenerateCall(r[1], r[2])

\* the steps of a call that is running
GenerateRun ==
    \/ GenerateDescend
    \/ GenerateExpandBegin
    \/ GenerateNextPrime
    \/ GenerateStrike
    \/ GenerateReturn

NextGenerate ==
    \/ GenerateCallSmall
    \/ GenerateCallBig
    \/ GenerateRun

\* a call that has started keeps running: generate is sequential code
SpecGenerate == Init /\ [][NextGenerate]_vars /\ WF_vars(GenerateRun)

\* the steps return what the operator generate computes
StepsAgreeWithGenerate ==
    (pc = "gen_done" /\ arg[1][2] <= BigHi) => Ok(store) = generate(arg[1][1], arg[1][2])

\* no call of the chain has failed, the ends of the calls decrease strictly,
\* and the store handed to expand contains 7..=isqrt(end)
GenerateSafe ==
    (op = "generate_call") =>
        /\ pc # "gen_failed"
        /\ \A j \in 1..(Len(arg) - 1) :
               /\ arg[j][2] > GenerateBase
               /\ arg[j + 1] = <<0, sqrt_floor(arg[j][2])>>
               /\ arg[j + 1][2] < arg[j][2]
        /\ (pc = "gen_expand") =>
               /\ store.start <= 7 /\ sqrt_floor(Top[2]) <= store.end
        /\ (pc = "gen_done") => (res = Ok("store") /\ store.start = Top[1] /\ store.end = Top[2])

\* C26: generate(a..=b) terminates and never fails for every range: each
\* recursive call generate(0..=isqrt(end)) has a strictly smaller end than its
\* caller, the chain reaches the base case end <= 900, at every level the
\* store handed to expand contains [7, isqrt(end)], so that no expand of the
\* chain returns NotEnoughData, and every call that starts returns.
C26_GenerateTerminates ==
    /\ []GenerateSafe
    /\ (pc = "gen_call") ~> (pc = "gen_done")

\* generate(811801..=811830) has returned after two recursive calls, with
\* the bit of 811801 = 901 * 901 cleared and the bit of the prime 811819 set
C26_Witness ==
    /\ pc = "gen_done" /\ arg = <<<<811801, 811830>>>> /\ res = Ok("store")
    /\ offset(store) = 27060 /\ Len(store.data) = 1
    /\ ~PrimeByte_is_prime(store.data[1], 1)
    /\ PrimeByte_is_prime(store.data[1], 19)

(***************************************************************************)
(* The entries of a factorization, checked under SpecFactors.              *)
(***************************************************************************)
\* the exponent of p in x, for p >= 2 and x >= 1
Exponent(p, x) == CHOOSE e \in 0..x : x % (p ^ e) = 0 /\ x % (p ^ (e + 1)) # 0

\* C27: for x >= 1 and a store whose range has 2..=isqrt(x) inside it (it
\* starts at or before 2 and ends at or after isqrt(x)), the keys of
\* try_factorize(x) are the primes that divide x, each with its exact
\* exponent in x, which is >= 1; the mapping is empty exactly when x = 1; a
\* cofactor > 1 left after the primes up to isqrt(x) is one more prime factor
\* of multiplicity 1; as_tuples() lists the pairs in strictly ascending order
\* of prime.
C27_FactorizationEntries ==
    (op = "try_factorize" /\ arg[1] >= 1
     /\ store.start <= 2 /\ sqrt_floor(arg[1]) <= store.end) =>
        /\ res.tag = "Ok"
        /\ DOMAIN res.val = {p \in 2..arg[1] : IsPrimeNumber(p) /\ arg[1] % p = 0}
        /\ \A p \in DOMAIN res.val : res.val[p] >= 1 /\ res.val[p] = Exponent(p, arg[1])
        /\ (DOMAIN res.val = {}) <=> (arg[1] = 1)
        /\ \A p \in DOMAIN res.val : p > sqrt_floor(arg[1]) => res.val[p] = 1
        /\ LET tuples == as_tuples(res.val) IN
           /\ Len(tuples) = Cardinality(DOMAIN res.val)
           /\ \A j \in 1..Len(tuples) : tuples[j][2] = res.val[tuples[j][1]]
           /\ \A j \in 1..(Len(tuples) - 1) : tuples[j][1] < tuples[j + 1][1]

\* 124 = 2^2 * 31 on generate(0..=12): 2 is divided out twice and the
\* cofactor 31 > isqrt(124) = 11 is added once
C27_Witness ==
    /\ op = "try_factorize" /\ arg = <<124>> /\ store.start = 0 /\ store.end = 12
    /\ res.tag = "Ok" /\ as_tuples(res.val) = <<<<2, 2>>, <<31, 1>>>>

(***************************************************************************)
(* The strike of the sieve loop, checked under SpecExpand.                 *)
(***************************************************************************)
\* C28: during try_expand(a..=b) the strike never fails: for every prime p
\* the iterator over [7, isqrt(b)] of the witness yields and every multiplier
\* m that CoprimeIter yields over [max(ceil(a/p), 7), floor(b/p)], p * m is in
\* [a, b] with a k-value as residue modulo 30, its block is in the block
\* array, set_nonprime(p * m) returns Ok, and the unwrap of the loop never
\* meets an error.
C28_StrikeNeverFails ==
    (op = "try_expand" /\ pc = "multiples") =>
        LET nx == CoprimeIter_next(citer)
            composite_number == prime * nx.item.val
        IN  /\ prime \in 7..sqrt_floor(arg[2])
            /\ nx.item.tag = "Some" =>
                   /\ nx.item.val >= Max(div_ceil(arg[1], prime), 7)
                   /\ nx.item.val <= div_floor(arg[2], prime)
                   /\ arg[1] <= composite_number /\ composite_number <= arg[2]
                   /\ IsKValue(composite_number % 30)
                   /\ (composite_number \div 30) - offset(expanded) \in 0..(Len(expanded.data) - 1)
                   /\ PrimeData_set_nonprime(expanded, composite_number).tag = "Ok"

\* generate(7..=11).try_expand(91..=125) is about to strike 11 * 11 = 121,
\* whose block is the second of the two blocks 3 and 4
C28_Witness ==
    /\ op = "try_expand" /\ pc = "multiples" /\ arg = <<91, 125>>
    /\ store.start = 7 /\ store.end = 11
    /\ prime = 11 /\ CoprimeIter_next(citer).item = Some(11)
    /\ offset(expanded) = 3 /\ Len(expanded.data) = 2
    /\ PrimeData_set_nonprime(expanded, 121) = [tag |-> "Ok", val |-> TRUE,
           store |-> [expanded EXCEPT !.data[2] =
                          PrimeByte_set_nonprime(expanded.data[2], 1).byte]]

(***************************************************************************)
(* Counting and iterating the same range of the same store: SpecCountIter  *)
(***************************************************************************)
\* data.count_primes_in_range(a..=b) and data.iter(a..=b).count()
CountAndIter(a, b) ==
    Query("count_and_iter", <<a, b>>,
          [tag |-> "Both",
           count |-> count_primes_in_range(store, a, b),
           yielded |-> LET it == iter(store, a, b)
                       IN  IF it.tag = "Ok" THEN Ok(Len(PrimeIter_collect(it.val))) ELSE Panic])

\* data.count_primes() and data.iter_all().count()
CountAndIterAll ==
    Query("count_and_iter_all", <<>>,
          [tag |-> "Both",
           count |-> count_primes(store),
           yielded |-> LET it == iter_all(store)
                       IN  IF it.tag = "Ok" THEN Ok(Len(PrimeIter_collect(it.val))) ELSE Panic])

\* the sub-ranges a <= b of the store's range inside a window
CountAndIterStep ==
    /\ HoldsStore
    /\ \E w \in IterWindows(store) :
           \E a \in Max(w[1], store.start)..Min(w[2], store.end) :
               \E b \in a..Min(w[2], store.end) : CountAndIter(a, b)

CountAndIterAllStep == HoldsStore /\ CountAndIterAll

NextCountIter ==
    \/ GenerateIterSmall
    \/ GenerateIterBig
    \/ CountAndIterStep
    \/ CountAndIterAllStep

SpecCountIter == Init /\ [][NextCountIter]_vars

\* C29: on a store generate(s..=e), s <= e, count_primes_in_range(a..=b) of
\* a sub-range a <= b of [s, e] is the number of values iter(a..=b) yields,
\* and count_primes() is the number of values iter_all() yields.
C29_CountIsIterLength ==
    /\ (op = "count_and_iter" /\ store.start <= arg[1] /\ arg[1] <= arg[2]
        /\ arg[2] <= store.end) =>
           (res.count.tag = "Ok" /\ res.yielded.tag = "Ok" /\ res.count = res.yielded)
    /\ (op = "count_and_iter_all" /\ store.start <= store.end) =>
           (res.count.tag = "Ok" /\ res.yielded.tag = "Ok" /\ res.count = res.yielded)

\* generate(31..=910) counts and yields the four primes 881, 883, 887, 907
\* of 880..=910
C29_Witness ==
    /\ op = "count_and_iter" /\ store.start = 31 /\ store.end = 910
    /\ arg = <<880, 910>> /\ res.count = Ok(4) /\ res.yielded = Ok(4)

(***************************************************************************)
(* The store expand returns from different stores, checked under           *)
(* SpecLayout.                                                             *)
(***************************************************************************)
\* try_expand has returned a store from the store of the state
Expanded == op = "try_expand" /\ pc = "queried" /\ res.tag = "Ok"

\* what generate(a..=b) returns, the expansion of the store generate builds
\* for itself
ExpandedByGenerate(a, b) == generate(a, b)

\* C30: the store expand(a..=b) returns depends on a..=b alone and not on
\* the store that is expanded: from every store that can be expanded to
\* a..=b the result has the same range and the same blocks, padding bits
\* included, as from the store generate(a..=b) builds for itself; the
\* expanded store itself is left as it was.
C30_ExpandIgnoresWitness ==
    /\ [](Expanded => (Ok(expanded) = ExpandedByGenerate(arg[1], arg[2])))
    /\ [][(op' = "try_expand") => (store' = store)]_vars

\* generate(1..=40), which is not the store generate(59..=961) builds for
\* itself, has been expanded to 59..=961: 31 blocks, 49 * 19 = 931 struck
C30_Witness ==
    /\ Expanded /\ arg = <<59, 961>>
    /\ store.start = 1 /\ store.end = 40
    /\ store # generate(0, 31).val
    /\ Len(expanded.data) = 32
    /\ ~PrimeByte_is_prime(expanded.data[31], 1)
    /\ expanded = generate(59, 961).val

====
